---- MODULE Spec2Model ----
(***************************************************************************)
(* Verification model of the agent360 workflow core:                       *)
(*   - IntegrationManager   (src/src/integrations/integration_manager.py)  *)
(*   - StateManager         (src/src/agent_runtime/context.py)             *)
(*   - AgentWorkflow        (src/src/workflows/agent_workflow.py)          *)
(*   - EventStore           (src/src/infrastructure/event_store.py)        *)
(* Each component has its own specification (SpecIm and SpecEx, SpecSm,    *)
(* SpecWf and SpecWf2, SpecEs) over the variables it owns; the others stay *)
(* at their initial value.  Durable tables, the cache and the activity     *)
(* runtime are the external collaborators the code calls; they are         *)
(* modelled by what the calls made by the code do to them.                 *)
(***************************************************************************)
EXTENDS Integers, Sequences, FiniteSets, TLC

VARIABLES
    \* IntegrationManager
    integrations,      \* self._integrations: type -> IntegrationConfig
    integrations_db,   \* durable table "integrations": type -> row
    icache,            \* redis entries "integration:<type>:<op>:<params>"
    ex,                \* the execute_integration call in progress
    imRet,             \* last management call and how it ended
    preCall,           \* history: entries that outlived a returned update/delete call
    preUpd,            \* history: entries that outlived an update/delete that reached the clear
    \* StateManager and its collaborators
    agent_states,      \* durable table "agent_states": a set of rows
    scache,            \* redis entries "agent:state:<id>"
    emitted,           \* events given to events.emit, in order
    emittedBy,         \* history: the caller behind each emitted event
    clock,             \* datetime.utcnow()
    smRet,             \* last StateManager call and how it ended
    smCalls,           \* StateManager calls made directly so far
    \* AgentWorkflow
    wf,                \* the workflow runs: position, self._state, result
    written,           \* history: per state id, the durable writes in order
    faults,            \* failures injected so far
    faultCap,          \* 0: any number of failures; n > 0: at most n
    \* EventStore
    workflow_events,   \* table "workflow_events": a set of rows
    esSubmitted,       \* history: the events handed to store_event
    esRet,             \* last EventStore call and how it ended
    \* the task workflow of infrastructure/temporal_workflow.py, the Orchestrator
    tw,                \* one workflow instance: position, self._state, signals applied
    orch,              \* the Orchestrator.process_step call in progress
    \* WorkflowPatterns
    pt                 \* the pattern calls in progress and what they have done

imVars == <<integrations, integrations_db, icache, ex, imRet, preCall, preUpd>>
smVars == <<agent_states, scache, emitted, emittedBy, clock, smRet, smCalls>>
wfVars == <<wf, written, faults, faultCap>>
esVars == <<workflow_events, esSubmitted, esRet>>
twVars == <<tw, orch, pt>>

vars == <<imVars, smVars, wfVars, esVars, twVars>>

----------------------------------------------------------------------------
(* Optional values: {} is Python's None, {v} a given value.                *)
Opt(S) == {{}} \cup {{v} : v \in S}
Val(o) == CHOOSE v \in o : TRUE
Min2(a, b) == IF a <= b THEN a ELSE b

RECURSIVE Pow(_, _)
Pow(b, e) == IF e = 0 THEN 1 ELSE b * Pow(b, e - 1)

----------------------------------------------------------------------------
(* IntegrationManager                                                      *)

MaxRetries == 1          \* largest max_retries a caller registers
SmallTimeout == 2        \* a short timeout_seconds a caller registers
MaxOpDuration == 1       \* longest time one underlying operation takes

DefaultTimeout == 30     \* IntegrationConfig.timeout_seconds
DefaultCacheTtl == 3600  \* IntegrationConfig.cache_ttl_seconds
DefaultMaxRetries == 3   \* _execute_operation: retry_policy default
DefaultDelay == 1        \* _execute_operation: retry_policy default
DefaultMaxDelay == 5     \* retry_policy.get("max_delay_seconds", 5)
DefaultBackoff == 2      \* retry_policy.get("backoff_factor", 2)

TypeA == <<"a">>
TypeB == <<"b">>
Types == {TypeA, TypeB}
Operations == {"op"}
Params == {"p1", "p2"}
BadConfig == "not_a_dict"

\* retry_policy dictionaries: a record holding exactly the keys present
ValidPolicies == {[max_retries |-> m, delay_seconds |-> DefaultDelay] : m \in 0..MaxRetries}
BadPolicy == [delay_seconds |-> DefaultDelay]

\* the calls made by the callers of the manager: <<type, config, enabled,
\* retry_policy, timeout_seconds, cache_ttl_seconds>>
RegisterInputs ==
    {<<TypeA, "c1", en, {rp}, DefaultTimeout, DefaultCacheTtl>> :
        en \in BOOLEAN, rp \in {pol \in ValidPolicies : pol.max_retries \in {0, MaxRetries}}}
    \cup {<<TypeB, "c1", TRUE, {}, DefaultTimeout, DefaultCacheTtl>>,
          <<TypeA, BadConfig, TRUE, {}, DefaultTimeout, DefaultCacheTtl>>,
          <<TypeA, "c1", TRUE, {BadPolicy}, DefaultTimeout, DefaultCacheTtl>>,
          <<TypeA, "c1", TRUE, {}, 0, DefaultCacheTtl>>,
          <<TypeA, "c1", TRUE, {}, DefaultTimeout, 0>>}
UpdateInputs ==
    {<<t, {}, {}, {}, {}, {}>> : t \in Types}
    \cup {<<t, {"c1"}, {}, {}, {}, {}>> : t \in Types}
    \cup {<<TypeA, {}, {en}, {}, {}, {}>> : en \in BOOLEAN}
    \cup {<<TypeA, {}, {}, {rp}, {}, {}>> :
             rp \in {pol \in ValidPolicies : pol.max_retries \in {0, MaxRetries}}}
    \cup {<<TypeA, {}, {}, {}, {DefaultTimeout}, {DefaultCacheTtl}>>,
          <<TypeA, {BadConfig}, {}, {}, {}, {}>>,
          <<TypeA, {}, {}, {BadPolicy}, {}, {}>>}
\* the configurations a registered integration is executed under
ExecConfigs ==
    {[integration_type |-> TypeA, config |-> "c1", enabled |-> TRUE, retry_policy |-> rp,
      timeout_seconds |-> to, cache_ttl_seconds |-> DefaultCacheTtl] :
        rp \in Opt(ValidPolicies), to \in {SmallTimeout, DefaultTimeout}}
ExecInputs ==
    {<<TypeA, op, p>> : op \in Operations, p \in Params}
    \cup {<<TypeB, "op", "p1">>}

IntegrationConfig(t, c, en, rp, to, ttl) ==
    [integration_type |-> t, config |-> c, enabled |-> en, retry_policy |-> rp,
     timeout_seconds |-> to, cache_ttl_seconds |-> ttl]

\* cache_key = f"integration:{integration_type}:{operation}:{str(params)}"
CacheKey(t, op, p) == <<"integration", ":">> \o t \o <<":", op, ":", p>>
\* pattern = f"integration:{integration_type}:*"
CachePrefix(t) == <<"integration", ":">> \o t \o <<":">>
IsPrefix(p, s) == Len(p) <= Len(s) /\ SubSeq(s, 1, Len(p)) = p
KeysOf(t) == {CacheKey(t, op, p) : op \in Operations, p \in Params}

\* _validate_config: raises unless config is a dict
ValidateConfigOk(c) == c # BadConfig
\* _validate_retry_policy: None passes; otherwise both required keys
ValidateRetryPolicyOk(rp) ==
    rp = {} \/ {"max_retries", "delay_seconds"} \subseteq DOMAIN Val(rp)
\* _validate_timeouts
ValidateTimeoutsOk(to, ttl) == to > 0 /\ ttl > 0

\* _clear_integration_cache: keys(pattern), then delete each key
ClearNothing(c, t) == c
ClearIntegrationCache(c, t) ==
    LET keys == {k \in DOMAIN c : IsPrefix(CachePrefix(t), k)}
    IN [k \in (DOMAIN c) \ keys |-> c[k]]

\* the state of the StateManager's collaborators and of the workflows at start
SmInit ==
    /\ agent_states = {}
    /\ scache = [k \in {} |-> 0]
    /\ emitted = <<>>
    /\ emittedBy = <<>>
    /\ clock = 0
    /\ smRet = [call |-> "none"]
    /\ smCalls = 0
NoRuns ==
    /\ wf = [i \in {} |-> 0]
    /\ written = [i \in {} |-> 0]
    /\ faults = 0
    /\ faultCap = 0
EsEmpty ==
    /\ workflow_events = {}
    /\ esSubmitted = {}
    /\ esRet = [call |-> "none"]
TwIdle ==
    /\ tw = [pc |-> "idle"]
    /\ orch = [pc |-> "idle"]
    /\ pt = [pc |-> "idle"]

ExIdle == [pc |-> "idle"]
RetIdle == [call |-> "none"]

ImInit ==
    /\ integrations = [t \in {} |-> 0]
    /\ integrations_db = [t \in {} |-> 0]
    /\ icache = [k \in {} |-> 0]
    /\ ex = ExIdle
    /\ imRet = RetIdle
    /\ preCall = {}
    /\ preUpd = {}
    /\ SmInit
    /\ NoRuns
    /\ EsEmpty
    /\ TwIdle

Put(f, k, v) == [x \in (DOMAIN f) \cup {k} |-> IF x = k THEN v ELSE f[x]]
Drop(f, k) == [x \in (DOMAIN f) \ {k} |-> f[x]]

\* register_integration
RegisterIntegration(t, c, en, rp, to, ttl, dbOk) ==
    /\ IF ~ValidateConfigOk(c) \/ ~ValidateRetryPolicyOk(rp) \/ ~ValidateTimeoutsOk(to, ttl)
       THEN /\ imRet' = [call |-> "register", result |-> "ValueError"]
            /\ UNCHANGED <<integrations, integrations_db>>
       ELSE IF ~dbOk
       THEN /\ imRet' = [call |-> "register", result |-> "DbError"]
            /\ UNCHANGED <<integrations, integrations_db>>
       ELSE /\ integrations_db' = Put(integrations_db, t, IntegrationConfig(t, c, en, rp, to, ttl))
            /\ integrations' = Put(integrations, t, IntegrationConfig(t, c, en, rp, to, ttl))
            /\ imRet' = [call |-> "register", result |-> "ok"]
    /\ UNCHANGED <<icache, ex, preCall, preUpd>>

\* `a or b` on numbers: b when a is None or 0
OrElse(o, dflt) == IF o # {} /\ Val(o) # 0 THEN Val(o) ELSE dflt
\* `a if a is not None else b`
IfGiven(o, dflt) == IF o # {} THEN Val(o) ELSE dflt

Survivors(c, t) == {k \in DOMAIN c : k \in KeysOf(t)}

\* update_integration
UpdateIntegration(t, c, en, rp, to, ttl, dbOk) ==
    IF t \notin DOMAIN integrations
    THEN /\ imRet' = [call |-> "update", result |-> "ValueError"]
         /\ UNCHANGED <<integrations, integrations_db, icache, ex, preCall, preUpd>>
    ELSE LET integration == integrations[t]
             invalid ==
                 \/ c # {} /\ ~ValidateConfigOk(Val(c))
                 \/ rp # {} /\ ~ValidateRetryPolicyOk(rp)
                 \/ /\ (to # {} \/ ttl # {})
                    /\ ~ValidateTimeoutsOk(OrElse(to, integration.timeout_seconds),
                                           OrElse(ttl, integration.cache_ttl_seconds))
             noUpdates == c = {} /\ en = {} /\ rp = {} /\ to = {} /\ ttl = {}
             new == IntegrationConfig(t,
                        IfGiven(c, integration.config),
                        IfGiven(en, integration.enabled),
                        IF rp # {} THEN rp ELSE integration.retry_policy,
                        IfGiven(to, integration.timeout_seconds),
                        IfGiven(ttl, integration.cache_ttl_seconds))
         IN IF invalid
            THEN /\ imRet' = [call |-> "update", result |-> "ValueError"]
                 /\ UNCHANGED <<integrations, integrations_db, icache, ex, preCall, preUpd>>
            ELSE IF noUpdates
            THEN /\ imRet' = [call |-> "update", result |-> "ok_no_updates"]
                 /\ preCall' = preCall \cup Survivors(icache, t)
                 /\ UNCHANGED <<integrations, integrations_db, icache, ex, preUpd>>
            ELSE IF ~dbOk
            THEN /\ imRet' = [call |-> "update", result |-> "DbError"]
                 /\ UNCHANGED <<integrations, integrations_db, icache, ex, preCall, preUpd>>
            ELSE /\ integrations_db' = Put(integrations_db, t, new)
                 /\ icache' = ClearIntegrationCache(icache, t)
                 /\ integrations' = Put(integrations, t, new)
                 /\ imRet' = [call |-> "update", result |-> "ok",
                              removed |-> Cardinality((DOMAIN icache) \ DOMAIN icache')]
                 /\ preCall' = preCall \cup Survivors(icache', t)
                 /\ preUpd' = preUpd \cup Survivors(icache', t)
                 /\ UNCHANGED ex

\* delete_integration
DeleteIntegration(t, dbOk) ==
    IF t \notin DOMAIN integrations
    THEN /\ imRet' = [call |-> "delete", result |-> "ValueError"]
         /\ UNCHANGED <<integrations, integrations_db, icache, ex, preCall, preUpd>>
    ELSE IF ~dbOk
    THEN /\ imRet' = [call |-> "delete", result |-> "DbError"]
         /\ UNCHANGED <<integrations, integrations_db, icache, ex, preCall, preUpd>>
    ELSE /\ integrations_db' = Drop(integrations_db, t)
         /\ integrations' = Drop(integrations, t)
         /\ icache' = ClearIntegrationCache(icache, t)
         /\ imRet' = [call |-> "delete", result |-> "ok",
                      removed |-> Cardinality((DOMAIN icache) \ DOMAIN icache')]
         /\ preCall' = preCall \cup Survivors(icache', t)
         /\ preUpd' = preUpd \cup Survivors(icache', t)
         /\ UNCHANGED ex

\* retry_policy = integration.retry_policy or {"max_retries": 3, "delay_seconds": 1}
EffectivePolicy(integration) ==
    IF integration.retry_policy = {} \/ DOMAIN Val(integration.retry_policy) = {}
    THEN [max_retries |-> DefaultMaxRetries, delay_seconds |-> DefaultDelay]
    ELSE Val(integration.retry_policy)
PolicyGet(pol, key, dflt) == IF key \in DOMAIN pol THEN pol[key] ELSE dflt
\* retry_delay = min(delay * (backoff ** (attempt - 1)), max_delay)
RetryDelayUncapped(pol, attempt) ==
    pol.delay_seconds * Pow(PolicyGet(pol, "backoff_factor", DefaultBackoff), attempt - 1)
RetryDelay(pol, attempt) ==
    Min2(pol.delay_seconds * Pow(PolicyGet(pol, "backoff_factor", DefaultBackoff), attempt - 1),
         PolicyGet(pol, "max_delay_seconds", DefaultMaxDelay))
\* the values asyncio.sleep can be called with before retry number `attempt`
RetryWaits(pol, attempt) == {RetryDelay(pol, attempt)}

\* `if attempt > max_retries: raise`
RetriesExhaustedOffByOne(attempt, max_retries) == attempt >= max_retries
RetriesExhausted(attempt, max_retries) == attempt > max_retries

\* the lookup at the head of execute_integration: not found, disabled, else the cache
LookupCacheFirst(t, key) ==
    IF t \notin DOMAIN integrations THEN "not_found"
    ELSE IF key \in DOMAIN icache THEN "hit"
    ELSE IF ~integrations[t].enabled THEN "disabled"
    ELSE "miss"
Lookup(t, key) ==
    IF t \notin DOMAIN integrations THEN "not_found"
    ELSE IF ~integrations[t].enabled THEN "disabled"
    ELSE IF key \in DOMAIN icache THEN "hit"
    ELSE "miss"

\* the finished call: its outcome, what it did on the way (calls: invocations of
\* the operation, fails: those that raised, reads/writes: cache accesses) and
\* what the lookup at its head saw
\* and, when it returns, the value returned
ExDone(t, op, p, outcome, calls, fails, reads, writes, maxr, seen, res) ==
    [pc |-> "done", type |-> t, operation |-> op, params |-> p, outcome |-> outcome,
     calls |-> calls, fails |-> fails, reads |-> reads, writes |-> writes,
     max_retries |-> maxr, seen |-> seen, result |-> res]

\* _execute_single_operation's result
OperationResult(t, op, p) == [integration_type |-> t, operation |-> op, params |-> p]

\* json.dumps / json.loads of a result: what JSON can hold comes back as it
\* went in; a tuple inside params comes back as a list
TupleParams == "p(1, 2)"
ListParams == "p[1, 2]"
JsonOf(p) == IF p = TupleParams THEN ListParams ELSE p
JsonDumps(result) == <<"json", [result EXCEPT !.params = JsonOf(@)]>>
JsonLoads(text) == text[2]

\* redis.set(cache_key, json.dumps(result), ex=integration.cache_ttl_seconds)
CacheEntryTimeoutTtl(cfg, result) ==
    [value |-> JsonDumps(result), ex |-> cfg.timeout_seconds]
CacheEntry(cfg, result) ==
    [value |-> JsonDumps(result), ex |-> cfg.cache_ttl_seconds]

\* the `redis.set` after wait_for returned: reached only with a result
CachedAfterAlways(c, key, cfg, result, outcome) == Put(c, key, CacheEntry(cfg, result))
CachedAfter(c, key, cfg, result, outcome) ==
    IF outcome = "ok" THEN Put(c, key, CacheEntry(cfg, result)) ELSE c

\* `if cached: return json.loads(cached)`
HitReplyAfterCall(t, op, p, seen, entry) ==
    ExDone(t, op, p, "hit", 1, 0, 1, 1, 0, seen, {JsonLoads(entry.value)})
HitReply(t, op, p, seen, entry) ==
    ExDone(t, op, p, "hit", 0, 0, 1, 0, 0, seen, {JsonLoads(entry.value)})

\* execute_integration up to the first await of the operation
ExecStart(t, op, p) ==
    /\ ex.pc = "idle"
    /\ LET key == CacheKey(t, op, p)
           how == Lookup(t, key)
           seen == [registered |-> t \in DOMAIN integrations,
                    enabled |-> t \in DOMAIN integrations /\ integrations[t].enabled,
                    cached |-> key \in DOMAIN icache]
       IN ex' = CASE how = "not_found" -> ExDone(t, op, p, "not_found", 0, 0, 0, 0, 0, seen, {})
                  [] how = "disabled" -> ExDone(t, op, p, "disabled", 0, 0, 0, 0, 0, seen, {})
                  [] how = "hit" -> HitReply(t, op, p, seen, icache[key])
                  [] OTHER ->
                       [pc |-> "running", type |-> t, operation |-> op, params |-> p,
                        integration |-> integrations[t], attempt |-> 0, calls |-> 0,
                        elapsed |-> 0]
    /\ UNCHANGED <<integrations, integrations_db, icache, imRet, preCall, preUpd>>

\* asyncio.wait_for(..., timeout=integration.timeout_seconds): the time the
\* whole of _execute_operation has taken reaches the timeout
TimedOutNever(elapsed, timeout_seconds) == FALSE
TimedOut(elapsed, timeout_seconds) == elapsed >= timeout_seconds

\* one pass of the `while True` loop of _execute_operation, under wait_for's timeout
ExecAttempt(opOk, d) ==
    /\ ex.pc = "running"
    /\ LET cfg == ex.integration
           pol == EffectivePolicy(cfg)
           t == ex.type
           key == CacheKey(t, ex.operation, ex.params)
           started == ex.elapsed < cfg.timeout_seconds
           calls == IF started THEN ex.calls + 1 ELSE ex.calls
           attempt == ex.attempt + 1
           after == ex.elapsed + d
           result == OperationResult(t, ex.operation, ex.params)
           Done(outcome, fails, writes) ==
               ExDone(t, ex.operation, ex.params, outcome, calls, fails, 1, writes,
                      pol.max_retries,
                      [registered |-> TRUE, enabled |-> TRUE, cached |-> FALSE],
                      IF outcome = "ok" THEN {result} ELSE {})
       IN IF TimedOut(after, cfg.timeout_seconds)
          THEN \* asyncio.TimeoutError -> TimeoutError
               /\ ex' = Done("timeout", ex.attempt, 0)
               /\ icache' = CachedAfter(icache, key, cfg, result, "timeout")
               /\ UNCHANGED <<preCall, preUpd>>
          ELSE IF opOk
          THEN /\ icache' = CachedAfter(icache, key, cfg, result, "ok")
               /\ preCall' = preCall \ {key}
               /\ preUpd' = preUpd \ {key}
               /\ ex' = Done("ok", ex.attempt, 1)
          ELSE IF RetriesExhausted(attempt, pol.max_retries)
          THEN /\ ex' = Done("error", attempt, 0)
               /\ icache' = CachedAfter(icache, key, cfg, result, "error")
               /\ UNCHANGED <<preCall, preUpd>>
          ELSE IF TimedOut(after + RetryDelay(pol, attempt), cfg.timeout_seconds)
          THEN /\ ex' = Done("timeout", attempt, 0)
               /\ icache' = CachedAfter(icache, key, cfg, result, "timeout")
               /\ UNCHANGED <<preCall, preUpd>>
          ELSE /\ ex' = [ex EXCEPT !.attempt = attempt, !.calls = calls,
                                   !.elapsed = after + RetryDelay(pol, attempt)]
               /\ UNCHANGED <<icache, preCall, preUpd>>
    /\ UNCHANGED <<integrations, integrations_db, imRet>>

\* the caller receives the result or the exception
ExecReturn ==
    /\ ex.pc = "done"
    /\ ex' = ExIdle
    /\ UNCHANGED <<integrations, integrations_db, icache, imRet, preCall, preUpd>>

\* the ttl of a cache entry runs out
IcacheExpire(k) ==
    /\ icache' = Drop(icache, k)
    /\ preCall' = preCall \ {k}
    /\ preUpd' = preUpd \ {k}
    /\ UNCHANGED <<integrations, integrations_db, ex, imRet>>

ImNext ==
    \/ \E i \in RegisterInputs, dbOk \in BOOLEAN :
          /\ RegisterIntegration(i[1], i[2], i[3], i[4], i[5], i[6], dbOk)
          /\ UNCHANGED <<smVars, wfVars, esVars, twVars>>
    \/ \E i \in UpdateInputs, dbOk \in BOOLEAN :
          /\ UpdateIntegration(i[1], i[2], i[3], i[4], i[5], i[6], dbOk)
          /\ UNCHANGED <<smVars, wfVars, esVars, twVars>>
    \/ \E t \in Types, dbOk \in BOOLEAN :
          DeleteIntegration(t, dbOk) /\ UNCHANGED <<smVars, wfVars, esVars, twVars>>
    \/ \E i \in ExecInputs :
          ExecStart(i[1], i[2], i[3]) /\ UNCHANGED <<smVars, wfVars, esVars, twVars>>
    \/ \E opOk \in BOOLEAN, d \in 0..MaxOpDuration :
          ExecAttempt(opOk, d) /\ UNCHANGED <<smVars, wfVars, esVars, twVars>>
    \/ ExecReturn /\ UNCHANGED <<smVars, wfVars, esVars, twVars>>

SpecIm == ImInit /\ [][ImNext]_vars

\* the retry loop alone, on every configuration of a registered integration
ExInit ==
    /\ \E cfg \in ExecConfigs : integrations = Put([t \in {} |-> 0], TypeA, cfg)
    /\ integrations_db = integrations
    /\ icache = [k \in {} |-> 0]
    /\ ex = ExIdle
    /\ imRet = RetIdle
    /\ preCall = {}
    /\ preUpd = {}
    /\ SmInit
    /\ NoRuns
    /\ EsEmpty
    /\ TwIdle
ExNext ==
    \/ \E i \in ExecInputs \cup {<<TypeA, "op", TupleParams>>} :
          ExecStart(i[1], i[2], i[3]) /\ UNCHANGED <<smVars, wfVars, esVars, twVars>>
    \/ \E k \in DOMAIN icache : IcacheExpire(k) /\ UNCHANGED <<smVars, wfVars, esVars, twVars>>
    \/ \E opOk \in BOOLEAN, d \in 0..MaxOpDuration :
          ExecAttempt(opOk, d) /\ UNCHANGED <<smVars, wfVars, esVars, twVars>>
    \/ ExecReturn /\ UNCHANGED <<smVars, wfVars, esVars, twVars>>
SpecEx == ExInit /\ [][ExNext]_vars

----------------------------------------------------------------------------
(* Claims on the IntegrationManager                                        *)

ExFinished == ex.pc = "done"

C31_FailureWritesNothing ==
    [][(/\ ex.pc # "done" /\ ex'.pc = "done"
        /\ ex'.outcome \in {"not_found", "disabled", "timeout", "error"})
          => icache' = icache /\ ex'.writes = 0]_vars

C31_Witness ==
    /\ ex.pc = "done" /\ ex.outcome = "error" /\ ex.calls >= 2
    /\ CacheKey(ex.type, ex.operation, ex.params) \notin DOMAIN icache
    /\ icache # <<>>

\* C30 (as stated): an execute_integration in flight never writes its result
\* to the cache after an update_integration replaced the configuration it
\* was started under; the entry it writes was computed under the registered
\* configuration.
C30_AsStated ==
    [][(/\ ex.pc = "running" /\ ex'.pc = "done" /\ ex'.outcome = "ok"
        /\ icache' # icache
        /\ imRet.call = "update" /\ imRet.result = "ok"
        /\ ex.type \in DOMAIN integrations)
          => ex.integration = integrations[ex.type]]_vars

C5_DisabledNeverExecutes ==
    /\ ExFinished =>
          /\ ex.outcome = "not_found" <=> ~ex.seen.registered
          /\ ex.outcome = "disabled" <=> ex.seen.registered /\ ~ex.seen.enabled
          /\ ex.outcome \in {"not_found", "disabled"} =>
                ex.calls = 0 /\ ex.reads = 0 /\ ex.writes = 0
    /\ ex.pc = "running" => ex.integration.enabled

C5_Witness ==
    ExFinished /\ ex.outcome = "disabled" /\ ex.seen.cached

C12_HitSkipsOperation ==
    /\ [](ExFinished /\ ex.outcome = "hit" =>
             /\ ex.seen.registered /\ ex.seen.enabled /\ ex.seen.cached
             /\ ex.calls = 0 /\ ex.fails = 0 /\ ex.writes = 0 /\ ex.reads = 1
             /\ ex.result # {})
    /\ [](ExFinished /\ ex.seen.registered /\ ex.seen.enabled /\ ex.seen.cached =>
             ex.outcome = "hit")
    /\ [][ex'.pc = "done" /\ ex.pc # "done" /\ ex'.outcome = "hit" =>
             /\ ex.pc = "idle"
             /\ icache' = icache
             /\ ex'.result = {JsonLoads(icache[CacheKey(ex'.type, ex'.operation,
                                                        ex'.params)].value)}]_vars

C12_Witness ==
    /\ ExFinished /\ ex.outcome = "hit" /\ ex.calls = 0
    /\ CacheKey(ex.type, ex.operation, ex.params) \in DOMAIN icache

\* C14 (as stated): a TimeoutError reaches the caller only when the retry
\* limit is exhausted, after 1 + max_retries invocations.
C14_AsStated ==
    ExFinished /\ ex.outcome = "timeout" => ex.calls = 1 + ex.max_retries

\* C14 (amended): timeout_seconds is one budget for the whole call, all
\* invocations and waits together: while the call runs the time used is below
\* it, and once it is reached the call ends with TimeoutError at once,
\* whatever number of retries is left, and invokes the operation no more.
C14_TimeoutEndsCall ==
    /\ [](ex.pc = "running" => ex.elapsed < ex.integration.timeout_seconds)
    /\ [](ExFinished /\ ex.outcome = "timeout" =>
             /\ ex.calls <= 1 + ex.max_retries
             /\ ex.writes = 0 /\ ex.result = {})
    /\ [][ex.pc = "running" /\ ex'.pc = "done" =>
             /\ ex'.outcome \in {"ok", "error", "timeout"}
             /\ ex'.outcome = "error" => ex'.fails = 1 + ex'.max_retries
             /\ ex'.calls \in {ex.calls, ex.calls + 1}]_vars
    /\ [][ex.pc = "done" => ex'.pc \in {"done", "idle"}]_vars

C14_Witness ==
    /\ ExFinished /\ ex.outcome = "timeout"
    /\ ex.max_retries >= 1 /\ ex.calls = 1 /\ ex.fails = 1

\* register, update and delete alone, the updates including a zero
\* timeout_seconds and a zero cache_ttl_seconds
MgUpdateInputs ==
    UpdateInputs \cup {<<TypeA, {}, {}, {}, {0}, {}>>, <<TypeA, {}, {}, {}, {}, {0}>>,
                       <<TypeA, {}, {}, {}, {0 - 1}, {}>>}
MgNext ==
    \/ \E i \in RegisterInputs, dbOk \in BOOLEAN :
          /\ RegisterIntegration(i[1], i[2], i[3], i[4], i[5], i[6], dbOk)
          /\ UNCHANGED <<smVars, wfVars, esVars, twVars>>
    \/ \E i \in MgUpdateInputs, dbOk \in BOOLEAN :
          /\ UpdateIntegration(i[1], i[2], i[3], i[4], i[5], i[6], dbOk)
          /\ UNCHANGED <<smVars, wfVars, esVars, twVars>>
    \/ \E t \in Types, dbOk \in BOOLEAN :
          DeleteIntegration(t, dbOk) /\ UNCHANGED <<smVars, wfVars, esVars, twVars>>
SpecMg == ImInit /\ [][MgNext]_vars

\* C15 (as stated): every IntegrationConfig in the in-memory index has
\* timeout_seconds > 0, cache_ttl_seconds > 0 and a retry_policy that is
\* absent or holds both max_retries and delay_seconds.
C15_AsStated ==
    \A t \in DOMAIN integrations :
        /\ integrations[t].timeout_seconds > 0
        /\ integrations[t].cache_ttl_seconds > 0
        /\ ValidateRetryPolicyOk(integrations[t].retry_policy)

(***************************************************************************)
(* The manager with two registered types, the name of one ("a") followed   *)
(* by a colon being the head of the other ("a:b"); integration_type is any  *)
(* string, no validation looks at it                                       *)
(***************************************************************************)
TypeAB == <<"a", ":", "b">>
ScTypes == {TypeA, TypeAB}
ScNext ==
    \/ \E t \in ScTypes, dbOk \in BOOLEAN :
          /\ RegisterIntegration(t, "c1", TRUE, {}, DefaultTimeout, DefaultCacheTtl, dbOk)
          /\ UNCHANGED <<smVars, wfVars, esVars, twVars>>
    \/ \E t \in ScTypes, dbOk \in BOOLEAN :
          /\ UpdateIntegration(t, {"c1"}, {}, {}, {}, {}, dbOk)
          /\ UNCHANGED <<smVars, wfVars, esVars, twVars>>
    \/ \E t \in ScTypes, dbOk \in BOOLEAN :
          DeleteIntegration(t, dbOk) /\ UNCHANGED <<smVars, wfVars, esVars, twVars>>
    \/ \E t \in ScTypes, p \in Params :
          ExecStart(t, "op", p) /\ UNCHANGED <<smVars, wfVars, esVars, twVars>>
    \/ \E opOk \in BOOLEAN, d \in 0..MaxOpDuration :
          ExecAttempt(opOk, d) /\ UNCHANGED <<smVars, wfVars, esVars, twVars>>
    \/ ExecReturn /\ UNCHANGED <<smVars, wfVars, esVars, twVars>>
SpecSc == ImInit /\ [][ScNext]_vars

\* C38 (as stated): an update_integration or delete_integration of type t that
\* goes through leaves every cached result of every other registered type in
\* the cache, unchanged.
C38_AsStated ==
    [][\A t \in ScTypes :
          (\/ UpdateIntegration(t, {"c1"}, {}, {}, {}, {}, TRUE)
           \/ DeleteIntegration(t, TRUE))
          => \A u \in (DOMAIN integrations) \ {t} :
                \A k \in KeysOf(u) \cap DOMAIN icache :
                    k \in DOMAIN icache' /\ icache'[k] = icache[k]]_vars

(***************************************************************************)
(* The loop of _execute_operation alone, its operation failing every time, *)
(* on every retry policy the validation accepts                            *)
(***************************************************************************)
MaxBkRetries == 4
MaxBkDelay == 3
BkPolicies ==
    {[max_retries |-> MaxBkRetries, delay_seconds |-> dl] : dl \in 0..MaxBkDelay}
    \cup {[max_retries |-> MaxBkRetries, delay_seconds |-> dl, backoff_factor |-> bf] :
             dl \in 0..MaxBkDelay, bf \in 0..3}
    \cup {[max_retries |-> MaxBkRetries, delay_seconds |-> dl, max_delay_seconds |-> md] :
             dl \in 0..MaxBkDelay, md \in {1, 8}}
    \cup {[max_retries |-> MaxBkRetries, delay_seconds |-> dl, backoff_factor |-> bf,
           max_delay_seconds |-> md] : dl \in 0..MaxBkDelay, bf \in 0..3, md \in {1, 8}}

BkInit ==
    /\ \E rp \in Opt(BkPolicies) :
          /\ integrations = Put([t \in {} |-> 0], TypeA,
                 IntegrationConfig(TypeA, "c1", TRUE, rp, DefaultTimeout, DefaultCacheTtl))
          /\ ex = [pc |-> "backoff", policy |-> EffectivePolicy(integrations[TypeA]),
                   attempt |-> 0, waits |-> <<>>]
    /\ integrations_db = integrations
    /\ icache = [k \in {} |-> 0]
    /\ imRet = RetIdle
    /\ preCall = {}
    /\ preUpd = {}
    /\ SmInit
    /\ NoRuns
    /\ EsEmpty
    /\ TwIdle

\* except Exception: attempt += 1; ...; await asyncio.sleep(retry_delay)
BkRetry ==
    /\ ex.pc = "backoff"
    /\ ~RetriesExhausted(ex.attempt + 1, ex.policy.max_retries)
    /\ \E w \in RetryWaits(ex.policy, ex.attempt + 1) :
          ex' = [ex EXCEPT !.attempt = @ + 1, !.waits = Append(@, w)]
    /\ UNCHANGED <<integrations, integrations_db, icache, imRet, preCall, preUpd>>
\* except Exception: attempt += 1; if attempt > max_retries: raise
BkRaise ==
    /\ ex.pc = "backoff"
    /\ RetriesExhausted(ex.attempt + 1, ex.policy.max_retries)
    /\ ex' = [ex EXCEPT !.pc = "raised", !.attempt = @ + 1]
    /\ UNCHANGED <<integrations, integrations_db, icache, imRet, preCall, preUpd>>
BkNext ==
    \/ BkRetry /\ UNCHANGED <<smVars, wfVars, esVars, twVars>>
    \/ BkRaise /\ UNCHANGED <<smVars, wfVars, esVars, twVars>>
SpecBk == BkInit /\ [][BkNext]_vars

BkBackoff == IF "backoff_factor" \in DOMAIN ex.policy THEN ex.policy.backoff_factor ELSE 2
BkMaxDelay == IF "max_delay_seconds" \in DOMAIN ex.policy THEN ex.policy.max_delay_seconds ELSE 5
BkBase(n) == Min2(ex.policy.delay_seconds * Pow(BkBackoff, n - 1), BkMaxDelay)

MaxClock == 1
MaxSmCalls == 2
StateCacheTtl == 3600

StateIds == {"id1", "id2"}
\* a UUID and its str(), a datetime and its isoformat(): the conversion keeps
\* the content and changes the type; str() of a str is the str itself
Uuid(i) == <<"uuid", i>>
Str(x) == <<"str", x[2]>>
Dt(n) == <<"dt", n>>
IsoFormat(t) == <<"iso", t[2]>>

\* AgentState, with the fields the operations below read or write
AgentState(id, step, results, err, created, updated) ==
    [id |-> id, conversation_id |-> {Uuid("c1")}, tenant_id |-> "t1",
     current_step |-> step, variables |-> "v1", tool_results |-> results,
     error |-> err, created_at |-> created, updated_at |-> updated]

\* str(x) if x else None
StrIf(o) == {Str(x) : x \in o}

ToDict(st) ==
    [id |-> Str(st.id), conversation_id |-> StrIf(st.conversation_id),
     tenant_id |-> st.tenant_id, current_step |-> st.current_step,
     variables |-> st.variables, tool_results |-> st.tool_results, error |-> st.error,
     created_at |-> IsoFormat(st.created_at), updated_at |-> IsoFormat(st.updated_at)]

\* the parameter list of the INSERT
Row(st) ==
    [id |-> Str(st.id), conversation_id |-> StrIf(st.conversation_id),
     tenant_id |-> st.tenant_id, current_step |-> st.current_step,
     variables |-> st.variables, tool_results |-> st.tool_results, error |-> st.error,
     created_at |-> st.created_at, updated_at |-> st.updated_at]

StateCacheKey(id) == <<"agent:state:", id>>

StateChangedStale(st) ==
    [topic |-> "agent.state.changed", state_id |-> Str(st.id),
     current_step |-> "initialized", timestamp |-> IsoFormat(st.updated_at)]
StateChanged(st) ==
    [topic |-> "agent.state.changed", state_id |-> Str(st.id),
     current_step |-> st.current_step, timestamp |-> IsoFormat(st.updated_at)]
StateDeleted(id, now) ==
    [topic |-> "agent.state.deleted", state_id |-> Str(id), timestamp |-> IsoFormat(now)]

\* INSERT into a table whose primary key is id: the row replaces the one
\* stored under the same key
PrimaryKeyShared(row) == "k"
PrimaryKey(row) == row.id
InsertAppend(rows, row) == rows \cup {row}
Insert(rows, row) == {r \in rows : PrimaryKey(r) # PrimaryKey(row)} \cup {row}
RowsOf(rows, id) == {r \in rows : r.id = Str(id)}

\* what one execution of update_state does to the stores; the caller decides
\* what follows from the result
UpdateResult(emit_event, dbOk, emitOk) ==
    IF ~dbOk THEN "DbError" ELSE IF emit_event /\ ~emitOk THEN "EmitError" ELSE "ok"
StampedEpoch(st) == [st EXCEPT !.updated_at = Dt(0 - 1)]
Stamped(st) == [st EXCEPT !.updated_at = Dt(clock)]
\* whether the event goes out: the result of redis.set is not looked at
EmitsIfCached(emit_event, cacheOk, emitOk) == emit_event /\ cacheOk /\ emitOk
Emits(emit_event, cacheOk, emitOk) == emit_event /\ emitOk
UpdateStateEffects(s, emit_event, dbOk, cacheOk, emitOk, who) ==
    LET st == Stamped(s) IN
    IF ~dbOk
    THEN UNCHANGED <<agent_states, scache, emitted, emittedBy>>
    ELSE /\ agent_states' = Insert(agent_states, Row(st))
         /\ scache' = IF cacheOk
                      THEN Put(scache, StateCacheKey(Str(st.id)),
                               [value |-> ToDict(st), ttl |-> StateCacheTtl])
                      ELSE scache
         /\ IF Emits(emit_event, cacheOk, emitOk)
            THEN /\ emitted' = Append(emitted, StateChanged(st))
                 /\ emittedBy' = Append(emittedBy, who)
            ELSE UNCHANGED <<emitted, emittedBy>>

SameValue(a, b) == [a EXCEPT !.updated_at = Dt(0)] = [b EXCEPT !.updated_at = Dt(0)]

SmSteps == {"reasoning", "completed"}
SmStates == {AgentState(Uuid(i), step, <<>>, {}, Dt(0), Dt(0)) : i \in StateIds, step \in SmSteps}

\* StateManager.update_state called directly
UpdateStateCall(s, emit_event, dbOk, cacheOk, emitOk) ==
    /\ smCalls' = smCalls + 1
    /\ UpdateStateEffects(s, emit_event, dbOk, cacheOk, emitOk, "caller")
    /\ smRet' = [call |-> "update", id |-> s.id, arg |-> s,
                 result |-> UpdateResult(emit_event, dbOk, emitOk),
                 stamped |-> Stamped(s),
                 before |-> RowsOf(agent_states, s.id),
                 repeat |-> /\ smRet.call = "update"
                            /\ smRet.result = "ok"
                            /\ SameValue(smRet.arg, s),
                 cached |-> dbOk /\ cacheOk,
                 events |-> Len(emitted') - Len(emitted),
                 sent |-> SubSeq(emitted', Len(emitted) + 1, Len(emitted')),
                 stored |-> Row(Stamped(s)) \in agent_states',
                 emit_event |-> emit_event,
                 fault |-> [db |-> ~dbOk, cache |-> ~cacheOk, emit |-> ~emitOk]]
    /\ UNCHANGED clock
SmUpdateState(s, emit_event, dbOk, cacheOk, emitOk) ==
    /\ smCalls < MaxSmCalls
    /\ UpdateStateCall(s, emit_event, dbOk, cacheOk, emitOk)

\* StateManager.get_state: cache first, then the table, then the cache is
\* filled; a failing cache read or write is swallowed by RedisClient
CachedStateNever(cache, key, readOk) == {}
CachedState(cache, key, readOk) ==
    IF readOk /\ key \in DOMAIN cache THEN {cache[key].value} ELSE {}

GetStateCall(id, readOk, dbOk, cacheOk) ==
    LET key == StateCacheKey(Str(id))
        cached_state == CachedState(scache, key, readOk)
        rows == RowsOf(agent_states, id)
        ret == [call |-> "get", id |-> id, cacheBefore |-> scache,
                dbRead |-> cached_state = {},
                after |-> IF /\ smRet.call = "update" /\ smRet.result = "ok"
                             /\ smRet.id = id
                          THEN {smRet.stamped} ELSE {},
                fault |-> [read |-> ~readOk, db |-> ~dbOk, cache |-> ~cacheOk]]
    IN
    /\ smCalls' = smCalls + 1
    /\ UNCHANGED <<agent_states, emitted, emittedBy, clock>>
    /\ IF cached_state # {}
       THEN /\ smRet' = [result |-> "cache_hit", state |-> cached_state] @@ ret
            /\ UNCHANGED scache
       ELSE IF ~dbOk
       THEN /\ smRet' = [result |-> "DbError", state |-> {}] @@ ret
            /\ UNCHANGED scache
       ELSE IF rows = {}
       THEN /\ smRet' = [result |-> "not_found", state |-> {}] @@ ret
            /\ UNCHANGED scache
       ELSE \E row \in rows :
            /\ smRet' = [result |-> "success", state |-> {row}] @@ ret
            /\ scache' = IF cacheOk
                         THEN Put(scache, key, [value |-> ToDict(row), ttl |-> StateCacheTtl])
                         ELSE scache
SmGetState(id, readOk, dbOk, cacheOk) ==
    /\ smCalls < MaxSmCalls
    /\ GetStateCall(id, readOk, dbOk, cacheOk)

\* StateManager.delete_state
SmDeleteState(id, dbOk, cacheOk, emitOk) ==
    LET key == StateCacheKey(Str(id))
        ret == [call |-> "delete", id |-> id, cacheBefore |-> scache,
                sent |-> SubSeq(emitted', Len(emitted) + 1, Len(emitted')),
                fault |-> [db |-> ~dbOk, cache |-> ~cacheOk, emit |-> ~emitOk]]
    IN
    /\ smCalls < MaxSmCalls
    /\ smCalls' = smCalls + 1
    /\ UNCHANGED clock
    /\ IF ~dbOk
       THEN /\ UNCHANGED <<agent_states, scache, emitted, emittedBy>>
            /\ smRet' = [result |-> "DbError"] @@ ret
       ELSE /\ agent_states' = agent_states \ RowsOf(agent_states, id)
            /\ scache' = IF cacheOk THEN Drop(scache, key) ELSE scache
            /\ IF emitOk
               THEN /\ emitted' = Append(emitted, StateDeleted(id, Dt(clock)))
                    /\ emittedBy' = Append(emittedBy, "caller")
                    /\ smRet' = [result |-> "ok"] @@ ret
               ELSE /\ UNCHANGED <<emitted, emittedBy>>
                    /\ smRet' = [result |-> "EmitError"] @@ ret

\* time passes
Tick ==
    /\ clock < MaxClock
    /\ clock' = clock + 1
    /\ UNCHANGED <<agent_states, scache, emitted, emittedBy, smRet, smCalls>>

SmSpecInit == ImInit
SmNext ==
    \/ \E s \in SmStates, emit_event, dbOk, cacheOk, emitOk \in BOOLEAN :
          /\ SmUpdateState(s, emit_event, dbOk, cacheOk, emitOk)
          /\ UNCHANGED <<imVars, wfVars, esVars, twVars>>
    \/ \E i \in StateIds, readOk, dbOk, cacheOk \in BOOLEAN :
          SmGetState(Uuid(i), readOk, dbOk, cacheOk) /\ UNCHANGED <<imVars, wfVars, esVars, twVars>>
    \/ \E i \in StateIds, dbOk, cacheOk, emitOk \in BOOLEAN :
          SmDeleteState(Uuid(i), dbOk, cacheOk, emitOk) /\ UNCHANGED <<imVars, wfVars, esVars, twVars>>
    \/ Tick /\ UNCHANGED <<imVars, wfVars, esVars, twVars>>
SpecSm == SmSpecInit /\ [][SmNext]_vars

SmRepeated == smRet.call = "update" /\ smRet.result = "ok" /\ smRet.repeat
CacheEntriesOf(id) == {k \in DOMAIN scache : k[2] = Str(id)}
WithoutUpdatedAt(r) == [r EXCEPT !.updated_at = Dt(0)]

\* C8 (as stated): after update_state has been applied twice with the same
\* AgentState value, the table holds exactly one record for the id and it is
\* the record the first application left, and the cache holds exactly one
\* entry for the id.
C8_AsStated ==
    SmRepeated =>
        /\ RowsOf(agent_states, smRet.id) = smRet.before
        /\ Cardinality(RowsOf(agent_states, smRet.id)) = 1
        /\ Cardinality(CacheEntriesOf(smRet.id)) = 1

\* C8 (amended): after update_state has succeeded twice in a row with the same
\* AgentState value, the table holds exactly one record for the id; it equals
\* the record the first application left in every field except updated_at,
\* which carries the time of the second application; the cache holds at most
\* one entry for the id, and when the second cache write went through that
\* entry is the to_dict() of the state just written.
C8_UpdateIdempotent ==
    SmRepeated =>
        LET rows == RowsOf(agent_states, smRet.id)
            key == StateCacheKey(Str(smRet.id))
        IN
        /\ rows = {Row(smRet.stamped)}
        /\ Cardinality(smRet.before) = 1
        /\ \A b \in smRet.before : WithoutUpdatedAt(b) = WithoutUpdatedAt(Row(smRet.stamped))
        /\ CacheEntriesOf(smRet.id) \subseteq {key}
        /\ smRet.cached =>
              key \in DOMAIN scache /\ scache[key].value = ToDict(smRet.stamped)

C8_Witness ==
    /\ SmRepeated /\ smRet.cached
    /\ \E b \in smRet.before : b.updated_at # smRet.stamped.updated_at

\* C27 (as stated): after delete_state has returned normally, the table
\* holds no row and the cache no entry for the id, and the call has emitted
\* one state-deleted event for the id; after a delete_state whose durable
\* delete failed, the cache is as it was and no event has been emitted.
C27_AsStated ==
    smRet.call = "delete" =>
        /\ smRet.result = "ok" =>
              /\ RowsOf(agent_states, smRet.id) = {}
              /\ StateCacheKey(Str(smRet.id)) \notin DOMAIN scache
              /\ Len(smRet.sent) = 1
              /\ \A k \in 1..Len(smRet.sent) :
                    /\ smRet.sent[k].topic = "agent.state.deleted"
                    /\ smRet.sent[k].state_id = Str(smRet.id)
        /\ smRet.fault.db =>
              /\ smRet.result = "DbError"
              /\ scache = smRet.cacheBefore
              /\ smRet.sent = <<>>

\* update_state and get_state on one id, up to MaxRwCalls calls
MaxRwCalls == 3
RwStates == {s \in SmStates : s.id = Uuid("id1")}
RwNext ==
    \/ \E s \in RwStates, dbOk, cacheOk \in BOOLEAN :
          /\ smCalls < MaxRwCalls
          /\ UpdateStateCall(s, FALSE, dbOk, cacheOk, TRUE)
          /\ UNCHANGED <<imVars, wfVars, esVars, twVars>>
    \/ \E readOk, dbOk, cacheOk \in BOOLEAN :
          /\ smCalls < MaxRwCalls
          /\ GetStateCall(Uuid("id1"), readOk, dbOk, cacheOk)
          /\ UNCHANGED <<imVars, wfVars, esVars, twVars>>
SpecRw == SmSpecInit /\ [][RwNext]_vars

\* a row with its datetimes in the form to_dict gives them
AsDict(x) ==
    IF x.created_at[1] = "iso" THEN x
    ELSE [x EXCEPT !.created_at = IsoFormat(@), !.updated_at = IsoFormat(@)]

\* C29 (as stated): a get_state that follows a successful update_state(s) of
\* the same id, and meets no failure of its own reads, returns the content
\* of s, whatever happened to the cache write of that update.
C29_AsStated ==
    (/\ smRet.call = "get" /\ smRet.after # {}
     /\ ~smRet.fault.read /\ ~smRet.fault.db) =>
        /\ smRet.result \in {"cache_hit", "success"}
        /\ \A s \in smRet.after : \A got \in smRet.state : AsDict(got) = ToDict(s)

(***************************************************************************)
(* StateManager over DatabaseConnection (database/connection.py): execute  *)
(* never raises. In offline mode, and when the session fails, it returns   *)
(* an empty list and the statement has not run. offline_mode is what the   *)
(* last connect() left.                                                    *)
(***************************************************************************)
Executed(offline_mode, sessionOk) == ~offline_mode /\ sessionOk
ExecuteResult(offline_mode, sessionOk, rows) ==
    IF Executed(offline_mode, sessionOk) THEN rows ELSE {}
SessionFailed(offline_mode, sessionOk) == ~offline_mode /\ ~sessionOk

DbUpdateState(s, emit_event, offline_mode, sessionOk, cacheOk, emitOk) ==
    LET st == Stamped(s) IN
    /\ smCalls < MaxSmCalls
    /\ smCalls' = smCalls + 1
    /\ agent_states' = IF Executed(offline_mode, sessionOk)
                       THEN Insert(agent_states, Row(st))
                       ELSE agent_states
    /\ scache' = IF cacheOk
                 THEN Put(scache, StateCacheKey(Str(st.id)),
                          [value |-> ToDict(st), ttl |-> StateCacheTtl])
                 ELSE scache
    /\ IF Emits(emit_event, cacheOk, emitOk)
       THEN /\ emitted' = Append(emitted, StateChanged(st))
            /\ emittedBy' = Append(emittedBy, "caller")
       ELSE UNCHANGED <<emitted, emittedBy>>
    /\ smRet' = [call |-> "update", id |-> s.id,
                 result |-> UpdateResult(emit_event, TRUE, emitOk),
                 failure |-> SessionFailed(offline_mode, sessionOk),
                 cached |-> cacheOk,
                 events |-> Len(emitted') - Len(emitted)]
    /\ UNCHANGED clock

DbGetState(id, readOk, offline_mode, sessionOk, cacheOk) ==
    LET key == StateCacheKey(Str(id))
        hit == readOk /\ key \in DOMAIN scache
        rows == ExecuteResult(offline_mode, sessionOk, RowsOf(agent_states, id))
    IN
    /\ smCalls < MaxSmCalls
    /\ smCalls' = smCalls + 1
    /\ UNCHANGED <<agent_states, emitted, emittedBy, clock>>
    /\ IF hit
       THEN /\ smRet' = [call |-> "get", id |-> id, result |-> "cache_hit",
                         failure |-> FALSE]
            /\ UNCHANGED scache
       ELSE IF rows = {}
       THEN /\ smRet' = [call |-> "get", id |-> id, result |-> "not_found",
                         failure |-> SessionFailed(offline_mode, sessionOk)]
            /\ UNCHANGED scache
       ELSE \E row \in rows :
            /\ smRet' = [call |-> "get", id |-> id, result |-> "success",
                         failure |-> FALSE]
            /\ scache' = IF cacheOk
                         THEN Put(scache, key, [value |-> ToDict(row), ttl |-> StateCacheTtl])
                         ELSE scache

DbDeleteState(id, offline_mode, sessionOk, cacheOk, emitOk) ==
    LET key == StateCacheKey(Str(id)) IN
    /\ smCalls < MaxSmCalls
    /\ smCalls' = smCalls + 1
    /\ UNCHANGED clock
    /\ agent_states' = IF Executed(offline_mode, sessionOk)
                       THEN agent_states \ RowsOf(agent_states, id)
                       ELSE agent_states
    /\ scache' = IF cacheOk THEN Drop(scache, key) ELSE scache
    /\ IF emitOk
       THEN /\ emitted' = Append(emitted, StateDeleted(id, Dt(clock)))
            /\ emittedBy' = Append(emittedBy, "caller")
       ELSE UNCHANGED <<emitted, emittedBy>>
    /\ smRet' = [call |-> "delete", id |-> id,
                 result |-> IF emitOk THEN "ok" ELSE "EmitError",
                 failure |-> SessionFailed(offline_mode, sessionOk)]

DbNext ==
    \/ \E s \in SmStates, emit_event, offline_mode, sessionOk, cacheOk, emitOk \in BOOLEAN :
          /\ DbUpdateState(s, emit_event, offline_mode, sessionOk, cacheOk, emitOk)
          /\ UNCHANGED <<imVars, wfVars, esVars, twVars>>
    \/ \E i \in StateIds, readOk, offline_mode, sessionOk, cacheOk \in BOOLEAN :
          /\ DbGetState(Uuid(i), readOk, offline_mode, sessionOk, cacheOk)
          /\ UNCHANGED <<imVars, wfVars, esVars, twVars>>
    \/ \E i \in StateIds, offline_mode, sessionOk, cacheOk, emitOk \in BOOLEAN :
          /\ DbDeleteState(Uuid(i), offline_mode, sessionOk, cacheOk, emitOk)
          /\ UNCHANGED <<imVars, wfVars, esVars, twVars>>
    \/ Tick /\ UNCHANGED <<imVars, wfVars, esVars, twVars>>
SpecDb == SmSpecInit /\ [][DbNext]_vars

C17_CacheFailureTolerated ==
    (/\ smRet.call = "update"
     /\ ~smRet.fault.db /\ smRet.fault.cache /\ ~smRet.fault.emit) =>
        /\ smRet.result = "ok"
        /\ RowsOf(agent_states, smRet.id) = {Row(smRet.stamped)}
        /\ smRet.emit_event =>
              /\ smRet.events = 1
              /\ emitted[Len(emitted)] = StateChanged(smRet.stamped)

C17_Witness ==
    /\ smRet.call = "update" /\ smRet.result = "ok"
    /\ ~smRet.fault.db /\ smRet.fault.cache /\ smRet.emit_event
    /\ Len(emitted) >= 1 /\ emitted[Len(emitted)] = StateChanged(smRet.stamped)
    /\ StateCacheKey(Str(smRet.id)) \notin DOMAIN scache

\* C18: get_state answers from the cache, without a read of the table, when
\* the cache read yields an entry for the id; otherwise it reads the table
\* and, when a row is there, returns it and writes its to_dict() to the cache
\* (a write that fails leaves the cache as it was); it returns not-found
\* exactly when neither the cache read nor the table yields the id, and then
\* the cache is left as it was.
C18_GetState ==
    smRet.call = "get" =>
        LET key == StateCacheKey(Str(smRet.id))
            held == key \in DOMAIN smRet.cacheBefore /\ ~smRet.fault.read
            rows == RowsOf(agent_states, smRet.id)
        IN
        /\ held => /\ smRet.result = "cache_hit"
                   /\ smRet.state = {smRet.cacheBefore[key].value}
                   /\ ~smRet.dbRead
                   /\ scache = smRet.cacheBefore
        /\ (~held /\ ~smRet.fault.db /\ rows # {}) =>
                   /\ smRet.result = "success"
                   /\ smRet.dbRead
                   /\ smRet.state = rows
                   /\ Cardinality(rows) = 1
                   /\ IF smRet.fault.cache
                      THEN scache = smRet.cacheBefore
                      ELSE \A r \in rows :
                             scache = Put(smRet.cacheBefore, key,
                                          [value |-> ToDict(r), ttl |-> StateCacheTtl])
        /\ smRet.result = "not_found" <=> (~held /\ ~smRet.fault.db /\ rows = {})
        /\ smRet.result = "not_found" => (smRet.state = {} /\ scache = smRet.cacheBefore)

C18_Witness ==
    /\ smRet.call = "get" /\ smRet.result = "success"
    /\ StateCacheKey(Str(smRet.id)) \notin DOMAIN smRet.cacheBefore
    /\ StateCacheKey(Str(smRet.id)) \in DOMAIN scache
    /\ \A r \in smRet.state : scache[StateCacheKey(Str(smRet.id))].value = ToDict(r)

(***************************************************************************)
(* AgentWorkflow (workflows/agent_workflow.py); execute_activity runs the  *)
(* activity under the retry policy: a failed attempt is followed by        *)
(* another one until maximum_attempts have been made, then the failure is  *)
(* raised in the workflow                                                  *)
(***************************************************************************)
MaxFaults == 5
MaximumAttemptsFewer == 5 - 1
MaximumAttempts == 5

Max2(a, b) == IF a >= b THEN a ELSE b

NewRun(id) ==
    [pc |-> "created",
     state |-> AgentState(Uuid(id), "initialized", <<>>, {}, Dt(0), Dt(0)),
     call |-> 0,              \* _update_state calls begun
     attempt |-> 0,           \* attempt of the activity in progress
     handling |-> FALSE,      \* inside the except block
     result |-> "none",
     invoked |-> [reasoning |-> 0, tool |-> 0, process |-> 0],
     retried |-> 0,           \* history: most failed attempts of one call
     toolRetried |-> 0,       \* history: failed attempts of execute_tool
     lastUpdateOk |-> FALSE]  \* history: the last _update_state call returned

\* the assignment that follows each activity of the try block
StepAfterSkipping(pc) ==
    CASE pc = "created" -> "reasoning"
      [] pc = "reasoning" -> "tool_execution"
      [] pc = "tool" -> "completed"
      [] pc = "process" -> "completed"
StepAfter(pc) ==
    CASE pc = "created" -> "reasoning"
      [] pc = "reasoning" -> "tool_execution"
      [] pc = "tool" -> "result_processing"
      [] pc = "process" -> "completed"

\* self._state.current_step = ...; await self._update_state()
ThenUpdateUnpersisted(r, step) ==
    [r EXCEPT !.state.current_step = step,
              !.pc = CASE step = "reasoning" -> "reasoning"
                       [] step = "tool_execution" -> "tool"
                       [] step = "result_processing" -> "process"
                       [] OTHER -> "update",
              !.call = @ + 1, !.attempt = 1]
ThenUpdate(r, step) ==
    [r EXCEPT !.state.current_step = step, !.pc = "update",
              !.call = @ + 1, !.attempt = 1]

\* the except block's assignments
HandlerStateNoError(st, e) == [st EXCEPT !.current_step = "failed"]
HandlerState(st, e) == [st EXCEPT !.current_step = "failed", !.error = {e}]

\* an exception reaches run: the except block persists "failed" and raises;
\* an exception of that persistence leaves run directly
RaiseKeepingStep(r, e) ==
    IF r.handling
    THEN [r EXCEPT !.pc = "done", !.result = "raised", !.attempt = 0]
    ELSE [r EXCEPT !.state.error = {e}, !.handling = TRUE,
                   !.pc = "update", !.call = @ + 1, !.attempt = 1]
Raise(r, e) ==
    IF r.handling
    THEN [r EXCEPT !.pc = "done", !.result = "raised", !.attempt = 0]
    ELSE [r EXCEPT !.state = HandlerState(r.state, e), !.handling = TRUE,
                   !.pc = "update", !.call = @ + 1, !.attempt = 1]

\* a failed attempt: retried under the policy, raised when the attempts are used up
Failed(r, e) ==
    LET q == [r EXCEPT !.retried = Max2(@, r.attempt),
                       !.toolRetried = IF r.pc = "tool" THEN r.attempt ELSE @,
                       !.lastUpdateOk = IF r.pc = "update" THEN FALSE ELSE @]
    IN IF r.attempt < MaximumAttempts
       THEN [q EXCEPT !.attempt = @ + 1]
       ELSE Raise(q, e)

\* what run does once _update_state has returned
AfterUpdate(r) ==
    LET q == [r EXCEPT !.lastUpdateOk = TRUE] IN
    CASE r.handling -> [q EXCEPT !.pc = "done", !.result = "raised", !.attempt = 0]
      [] ~r.handling /\ r.state.current_step = "reasoning" ->
            [q EXCEPT !.pc = "reasoning", !.attempt = 1, !.invoked.reasoning = @ + 1]
      [] ~r.handling /\ r.state.current_step = "tool_execution" ->
            [q EXCEPT !.pc = "tool", !.attempt = 1, !.invoked.tool = @ + 1]
      [] ~r.handling /\ r.state.current_step = "result_processing" ->
            [q EXCEPT !.pc = "process", !.attempt = 1, !.invoked.process = @ + 1]
      [] ~r.handling /\ r.state.current_step = "completed" ->
            [q EXCEPT !.pc = "done", !.result = "completed", !.attempt = 0]

\* what run does once an activity of the try block has returned
AfterActivity(r) ==
    IF r.pc = "tool"
    THEN ThenUpdate([r EXCEPT !.state.tool_results = Append(@, "tool_result")],
                    StepAfter(r.pc))
    ELSE ThenUpdate(r, StepAfter(r.pc))

FaultAllowed == faultCap = 0 \/ faults < faultCap
CountFault(isFault) ==
    faults' = IF isFault /\ faultCap > 0 THEN faults + 1 ELSE faults

\* history of the durable writes under one id; the writes of the attempts of
\* one _update_state call are one entry
Recorded(h, entry) == IF h # <<>> /\ h[Len(h)] = entry THEN h ELSE Append(h, entry)

\* run, up to its first _update_state
WfBegin(i) ==
    /\ wf[i].pc = "created"
    /\ wf' = [wf EXCEPT ![i] = ThenUpdate(@, StepAfter("created"))]
    /\ UNCHANGED <<smVars, written, faults, faultCap>>

\* one attempt of the update_state activity
WfUpdateAttempt(i, dbOk, cacheOk, emitOk) ==
    LET r == wf[i]
        isFault == ~(dbOk /\ cacheOk /\ emitOk)
        res == UpdateResult(TRUE, dbOk, emitOk)
    IN
    /\ r.pc = "update"
    /\ isFault => FaultAllowed
    /\ cacheOk \/ faultCap = 0    \* under a cap, every fault fails its attempt
    /\ CountFault(isFault)
    /\ UpdateStateEffects(r.state, TRUE, dbOk, cacheOk, emitOk, i)
    /\ written' = IF dbOk
                  THEN [written EXCEPT ![r.state.id[2]] =
                          Recorded(@, [step |-> r.state.current_step,
                                       call |-> r.call, by |-> i])]
                  ELSE written
    /\ wf' = [wf EXCEPT ![i] = IF res = "ok" THEN AfterUpdate(r) ELSE Failed(r, res)]
    /\ UNCHANGED <<clock, smRet, smCalls, faultCap>>

\* one attempt of execute_reasoning, execute_tool or process_result
WfActivityAttempt(i, ok) ==
    LET r == wf[i] IN
    /\ r.pc \in {"reasoning", "tool", "process"}
    /\ ~ok => FaultAllowed
    /\ CountFault(~ok)
    /\ wf' = [wf EXCEPT ![i] = IF ok THEN AfterActivity(r) ELSE Failed(r, "ActivityError")]
    /\ UNCHANGED <<smVars, written, faultCap>>

WfNext ==
    \/ \E i \in DOMAIN wf : WfBegin(i) /\ UNCHANGED <<imVars, esVars, twVars>>
    \/ \E i \in DOMAIN wf, dbOk, cacheOk, emitOk \in BOOLEAN :
          WfUpdateAttempt(i, dbOk, cacheOk, emitOk) /\ UNCHANGED <<imVars, esVars, twVars>>
    \/ \E i \in DOMAIN wf, ok \in BOOLEAN :
          WfActivityAttempt(i, ok) /\ UNCHANGED <<imVars, esVars, twVars>>

ImIdle ==
    /\ integrations = [t \in {} |-> 0]
    /\ integrations_db = [t \in {} |-> 0]
    /\ icache = [k \in {} |-> 0]
    /\ ex = ExIdle
    /\ imRet = RetIdle
    /\ preCall = {}
    /\ preUpd = {}
WfInitWith(ids, cap) ==
    /\ ImIdle
    /\ SmInit
    /\ EsEmpty
    /\ TwIdle
    /\ wf = [i \in ids |-> NewRun(i)]
    /\ written = [i \in ids |-> <<>>]
    /\ faults = 0
    /\ faultCap = cap

\* one run, any number of failed attempts
WfInit == WfInitWith({"id1"}, 0)
SpecWf == WfInit /\ [][WfNext]_vars

\* two runs side by side, at most MaxFaults failed attempts in all
Wf2Init == WfInitWith(StateIds, MaxFaults)
SpecWf2 == Wf2Init /\ [][WfNext]_vars

Done(i) == wf[i].pc = "done"
Completed(i) == Done(i) /\ wf[i].result = "completed"
Raised(i) == Done(i) /\ wf[i].result = "raised"
StepsWritten(i) == [k \in 1..Len(written[i]) |-> written[i][k].step]
CallsWritten(i) == [k \in 1..Len(written[i]) |-> written[i][k].call]

\* C1 (as stated): in a run that completes, the current_step values written
\* to the table for its id are initialized, reasoning, tool_execution,
\* result_processing, completed, in this order.
C1_AsStated ==
    \A i \in DOMAIN wf :
        Completed(i) =>
            StepsWritten(i) = <<"initialized", "reasoning", "tool_execution",
                                "result_processing", "completed">>

\* C1 (amended): in a run that completes, the current_step values written to
\* the table for its id are reasoning, tool_execution, result_processing,
\* completed, in this order, each by one _update_state call (whose attempts
\* may write it more than once); initialized is never written, and while the
\* run is in its try block the values written are a prefix of that sequence.
C1_StepSequence ==
    LET full == <<"reasoning", "tool_execution", "result_processing", "completed">> IN
    \A i \in DOMAIN wf :
        /\ Completed(i) =>
              /\ StepsWritten(i) = full
              /\ CallsWritten(i) = <<1, 2, 3, 4>>
        /\ ~wf[i].handling =>
              /\ Len(written[i]) <= Len(full)
              /\ StepsWritten(i) = SubSeq(full, 1, Len(written[i]))
        /\ \A k \in 1..Len(written[i]) : written[i][k].step # "initialized"

C1_Witness ==
    \E i \in DOMAIN wf :
        /\ Completed(i)
        /\ wf[i].retried >= 2
        /\ Len(written[i]) = 4

\* C2 (as stated): when run ends by raising, the last state persisted for the
\* id has current_step failed and a non-null error.
C2_AsStated ==
    \A i \in DOMAIN wf :
        Raised(i) =>
            /\ RowsOf(agent_states, wf[i].state.id) # {}
            /\ \A row \in RowsOf(agent_states, wf[i].state.id) :
                  row.current_step = "failed" /\ row.error # {}

\* C2 (amended): when run ends by raising, its in-memory state has
\* current_step failed and a non-null error, and the except block has called
\* _update_state for it; when an attempt of that call reached the table, the
\* row of the id has current_step failed and a non-null error, and this is the
\* case whenever that call returned.  When every attempt of that call failed
\* before its write, the table keeps what was written before, or nothing.
C2_FailureRecorded ==
    \A i \in DOMAIN wf :
        Raised(i) =>
            LET rows == RowsOf(agent_states, wf[i].state.id)
                h == written[i]
                reached == h # <<>> /\ h[Len(h)].step = "failed"
            IN
            /\ wf[i].handling
            /\ wf[i].state.current_step = "failed"
            /\ wf[i].state.error # {}
            /\ wf[i].lastUpdateOk => reached
            /\ reached => /\ Cardinality(rows) = 1
                          /\ \A row \in rows : row.current_step = "failed" /\ row.error # {}
            /\ ~reached => \A row \in rows : row.current_step # "failed"

C2_Witness ==
    \E i \in DOMAIN wf :
        /\ Raised(i)
        /\ wf[i].lastUpdateOk
        /\ \E row \in agent_states : row.current_step = "failed" /\ row.error # {}

C7_AsStated ==
    [][\A i \in DOMAIN wf :
          wf[i].state.current_step \in {"completed", "failed"} =>
              wf'[i].state.current_step = wf[i].state.current_step]_vars

EventsOf(i) == SelectSeq(emitted, LAMBDA e : e.state_id = Str(Uuid(i)))
StepsEmitted(i) == [k \in 1..Len(EventsOf(i)) |-> EventsOf(i)[k].current_step]

StepOfActivity(pc) ==
    CASE pc = "reasoning" -> "reasoning"
      [] pc = "tool" -> "tool_execution"
      [] pc = "process" -> "result_processing"
ActivityPcs == {"reasoning", "tool", "process"}

\* C23: an activity of the try block is invoked only when the _update_state
\* call that persisted its own step has just returned without an exception,
\* the row of that step being in the table; and current_step is assigned
\* tool_execution, result_processing or completed only when the activity of
\* the step before has just returned.
C23_StrictlySequential ==
    [][\A i \in DOMAIN wf :
          /\ (wf'[i].pc \in ActivityPcs /\ wf'[i].pc # wf[i].pc) =>
                /\ wf[i].pc = "update" /\ ~wf[i].handling
                /\ wf'[i].lastUpdateOk
                /\ wf[i].state.current_step = StepOfActivity(wf'[i].pc)
                /\ wf'[i].state = wf[i].state
                /\ \E row \in RowsOf(agent_states', wf[i].state.id) :
                      row.current_step = StepOfActivity(wf'[i].pc)
          /\ (/\ wf'[i].state.current_step # wf[i].state.current_step
              /\ wf'[i].state.current_step
                    \in {"tool_execution", "result_processing", "completed"}) =>
                /\ wf[i].pc \in ActivityPcs
                /\ wf[i].state.current_step = StepOfActivity(wf[i].pc)
                /\ wf'[i].state.current_step = StepAfter(wf[i].pc)
                /\ wf'[i].pc = "update"]_vars

C23_Witness ==
    \E i \in DOMAIN wf :
        /\ wf[i].pc = "process" /\ wf[i].retried >= 1
        /\ wf[i].invoked = [reasoning |-> 1, tool |-> 1, process |-> 1]
        /\ \E row \in agent_states : row.current_step = "result_processing"

\* C24: in the state a run holds and in every row of the table, error is
\* non-null only together with current_step failed; a run that returns
\* completed holds a state with error null, and so does the row of its id.
C24_ErrorOnlyWhenFailed ==
    /\ \A i \in DOMAIN wf :
          /\ wf[i].state.error # {} => wf[i].state.current_step = "failed"
          /\ Completed(i) =>
                /\ wf[i].state.error = {}
                /\ \A row \in RowsOf(agent_states, wf[i].state.id) : row.error = {}
    /\ \A row \in agent_states : row.error # {} => row.current_step = "failed"

C24_Witness ==
    \E i \in DOMAIN wf :
        /\ Raised(i)
        /\ wf[i].state.error # {}
        /\ RowsOf(agent_states, wf[i].state.id) # {}
        /\ \A row \in RowsOf(agent_states, wf[i].state.id) :
              row.error = wf[i].state.error /\ row.current_step = "failed"

(***************************************************************************)
(* A workflow run next to one direct update_state call, with at most       *)
(* MaxEvFaults failed attempts in the run                                  *)
(***************************************************************************)
MaxEvFaults == 1
EvInit ==
    /\ ImIdle
    /\ EsEmpty
    /\ TwIdle
    /\ agent_states = {}
    /\ scache = [k \in {} |-> 0]
    /\ emitted = <<>>
    /\ emittedBy = <<>>
    /\ clock = 0
    /\ smRet = [call |-> "none"]
    /\ smCalls = MaxSmCalls - 1
    /\ wf = [i \in {"id1"} |-> NewRun(i)]
    /\ written = [i \in {"id1"} |-> <<>>]
    /\ faults = 0
    /\ faultCap = MaxEvFaults
EvNext ==
    \/ \E i \in DOMAIN wf : WfBegin(i) /\ UNCHANGED <<imVars, esVars, twVars>>
    \/ \E i \in DOMAIN wf, dbOk, cacheOk, emitOk \in BOOLEAN :
          WfUpdateAttempt(i, dbOk, cacheOk, emitOk) /\ UNCHANGED <<imVars, esVars, twVars>>
    \/ \E i \in DOMAIN wf, ok \in BOOLEAN :
          WfActivityAttempt(i, ok) /\ UNCHANGED <<imVars, esVars, twVars>>
    \/ \E s \in SmStates, emit_event, dbOk, cacheOk, emitOk \in BOOLEAN :
          /\ SmUpdateState(s, emit_event, dbOk, cacheOk, emitOk)
          /\ UNCHANGED <<imVars, wfVars, esVars, twVars>>
    \/ Tick /\ UNCHANGED <<imVars, wfVars, esVars, twVars>>
SpecEv == EvInit /\ [][EvNext]_vars

\* the current_step values of the events a run emitted
StepsEmittedBy(i) ==
    LET idx == {k \in 1..Len(emitted) : emittedBy[k] = i}
        ev == SelectSeq([k \in 1..Len(emitted) |-> <<emittedBy[k], emitted[k]>>],
                        LAMBDA e : e[1] = i)
    IN [k \in 1..Cardinality(idx) |-> ev[k][2].current_step]

\* C19: an update_state that returns normally has emitted one state-changed
\* event when emit_event is true, carrying the id and the current_step of the
\* state it has just written to the table, and none when emit_event is false;
\* no update_state emits before its durable write has gone through.  The
\* events of a run that completes carry reasoning, tool_execution,
\* result_processing, completed in this order, and those of a run still in
\* its try block a prefix of that sequence.
C19_EventPerUpdate ==
    LET full == <<"reasoning", "tool_execution", "result_processing", "completed">> IN
    /\ smRet.call = "update" =>
          /\ smRet.result = "ok" =>
                /\ smRet.stored
                /\ Len(smRet.sent) = (IF smRet.emit_event THEN 1 ELSE 0)
                /\ \A k \in 1..Len(smRet.sent) :
                      /\ smRet.sent[k].topic = "agent.state.changed"
                      /\ smRet.sent[k].state_id = Str(smRet.stamped.id)
                      /\ smRet.sent[k].current_step = smRet.stamped.current_step
          /\ smRet.sent # <<>> => (smRet.stored /\ smRet.emit_event /\ ~smRet.fault.db)
    /\ \A i \in DOMAIN wf :
          /\ Completed(i) => StepsEmittedBy(i) = full
          /\ ~wf[i].handling =>
                /\ Len(StepsEmittedBy(i)) <= Len(full)
                /\ StepsEmittedBy(i) = SubSeq(full, 1, Len(StepsEmittedBy(i)))

C19_Witness ==
    /\ \E i \in DOMAIN wf : Completed(i) /\ wf[i].retried >= 1
    /\ smRet.call = "update" /\ smRet.result = "ok" /\ ~smRet.emit_event
    /\ smRet.stored
    /\ Len(emitted) = 4

\* a workflow run, with any number of failed attempts, while time passes
FrNext ==
    \/ \E i \in DOMAIN wf : WfBegin(i) /\ UNCHANGED <<imVars, esVars, twVars>>
    \/ \E i \in DOMAIN wf, dbOk, cacheOk, emitOk \in BOOLEAN :
          WfUpdateAttempt(i, dbOk, cacheOk, emitOk) /\ UNCHANGED <<imVars, esVars, twVars>>
    \/ \E i \in DOMAIN wf, ok \in BOOLEAN :
          WfActivityAttempt(i, ok) /\ UNCHANGED <<imVars, esVars, twVars>>
    \/ Tick /\ UNCHANGED <<imVars, wfVars, esVars, twVars>>
SpecFr == WfInit /\ [][FrNext]_vars

\* the fields neither run nor update_state assigns
Frame(st) ==
    [id |-> Str(st.id), conversation_id |-> StrIf(st.conversation_id),
     tenant_id |-> st.tenant_id, variables |-> st.variables, created_at |-> st.created_at]
RowFrame(row) ==
    [id |-> row.id, conversation_id |-> row.conversation_id,
     tenant_id |-> row.tenant_id, variables |-> row.variables, created_at |-> row.created_at]

\* C25: no step of a run, successful or failing, changes the id, created_at,
\* tenant_id, conversation_id or variables of its state or shortens its
\* tool_results; update_state persists these fields as run holds them, and
\* updated_at is never earlier than created_at, in the state held and in
\* every row.
C25_FramePreserved ==
    /\ [][\A i \in DOMAIN wf :
             /\ Frame(wf'[i].state) = Frame(wf[i].state)
             /\ Len(wf'[i].state.tool_results) >= Len(wf[i].state.tool_results)]_vars
    /\ [](\A i \in DOMAIN wf :
             /\ wf[i].state.updated_at[2] >= wf[i].state.created_at[2]
             /\ \A row \in RowsOf(agent_states, wf[i].state.id) :
                   RowFrame(row) = Frame(wf[i].state))
    /\ [](\A row \in agent_states : row.updated_at[2] >= row.created_at[2])

C25_Witness ==
    \E i \in DOMAIN wf :
          /\ Raised(i) /\ Len(wf[i].state.tool_results) = 1
          /\ \E row \in RowsOf(agent_states, wf[i].state.id) :
                row.updated_at[2] > row.created_at[2] /\ row.current_step = "failed"

(***************************************************************************)
(* EventStore (infrastructure/event_store.py).  The table is kept by the   *)
(* database and outlives the process: a run starts on any table content.   *)
(***************************************************************************)
MaxRows == 3
EventTypes == {"started", "cancelled"}
EventTimes == {Dt(1), Dt(2)}
EsRows ==
    {[id |-> <<w, t, c[2]>>, workflow_id |-> Str(Uuid(w)), type |-> t, created_at |-> c] :
        w \in StateIds, t \in EventTypes, c \in EventTimes}
TypeFilters == Opt({"", "started"})
TimeFilters == Opt(EventTimes)

\* a Python condition "if x:" on an optional string, on an optional datetime
TruthyStr(o) == o # {} /\ Val(o) # ""
TruthyTime(o) == o # {}

\* the WHERE clause get_events builds
Selected(row, workflow_id, event_type, start_time, end_time) ==
    /\ row.workflow_id = Str(workflow_id)
    /\ TruthyStr(event_type) => row.type = Val(event_type)
    /\ TruthyTime(start_time) => row.created_at[2] >= Val(start_time)[2]
    /\ TruthyTime(end_time) => row.created_at[2] <= Val(end_time)[2]

\* ORDER BY created_at ASC: every listing of the rows in which created_at
\* never decreases (rows of equal created_at come in any order)
Ordered(rows) ==
    {q \in [1..Cardinality(rows) -> rows] :
        /\ \A j, k \in DOMAIN q : j # k => q[j] # q[k]
        /\ \A j, k \in DOMAIN q : j < k => q[j].created_at[2] <= q[k].created_at[2]}

\* the dict get_events builds from a row
EventOf(row) ==
    [id |-> row.id, workflow_id |-> row.workflow_id, type |-> row.type,
     created_at |-> IsoFormat(row.created_at)]

\* store_event: str(UUID()) raises TypeError (UUID needs an argument) before
\* the INSERT; the exception is logged and raised again
StoreEvent(workflow_id, event_type) ==
    /\ esSubmitted' = esSubmitted \cup {[workflow_id |-> Str(workflow_id), type |-> event_type]}
    /\ esRet' = [call |-> "store", workflow_id |-> workflow_id, type |-> event_type,
                 result |-> "TypeError"]
    /\ UNCHANGED workflow_events

GetEvents(workflow_id, event_type, start_time, end_time) ==
    LET rows == {row \in workflow_events :
                    Selected(row, workflow_id, event_type, start_time, end_time)}
    IN \E q \in Ordered(rows) :
        /\ esRet' = [call |-> "get", workflow_id |-> workflow_id, event_type |-> event_type,
                     start_time |-> start_time, end_time |-> end_time,
                     result |-> "ok",
                     events |-> [k \in DOMAIN q |-> EventOf(q[k])]]
        /\ UNCHANGED <<workflow_events, esSubmitted>>

EsInit ==
    /\ ImIdle
    /\ SmInit
    /\ NoRuns
    /\ TwIdle
    /\ workflow_events \in {T \in SUBSET EsRows : Cardinality(T) <= MaxRows}
    /\ esSubmitted = {}
    /\ esRet = [call |-> "none"]
EsNext ==
    \/ \E w \in StateIds :
          StoreEvent(Uuid(w), "started") /\ UNCHANGED <<imVars, smVars, wfVars, twVars>>
    \/ \E w \in StateIds, et \in TypeFilters, st, en \in TimeFilters :
          GetEvents(Uuid(w), et, st, en) /\ UNCHANGED <<imVars, smVars, wfVars, twVars>>
SpecEs == EsInit /\ [][EsNext]_vars

MaxTasks == 2
MaxSignals == 2
MaxQueries == 2
TwMaximumAttempts == 3

TaskNames == {"t1", "t2"}
RECURSIVE SeqsUpTo(_, _)
SeqsUpTo(S, n) ==
    IF n = 0 THEN {<<>>}
    ELSE LET shorter == SeqsUpTo(S, n - 1)
         IN shorter \cup {Append(q, x) : q \in {r \in shorter : Len(r) = n - 1}, x \in S}
TaskLists == SeqsUpTo(TaskNames, MaxTasks)

\* self._state after __init__
TwInitialState ==
    [k \in {"status", "current_task", "completed_tasks", "errors"} |->
        CASE k = "status" -> "initialized"
          [] k = "current_task" -> {}
          [] k = "completed_tasks" -> <<>>
          [] k = "errors" -> <<>>]

\* dict.update, d[k] = v
DictUpdate(d, u) == [k \in DOMAIN d \cup DOMAIN u |-> IF k \in DOMAIN u THEN u[k] ELSE d[k]]
DictSet(d, k, v) == DictUpdate(d, [x \in {k} |-> v])

\* the arguments of the update_state signal
Signals ==
    {[x \in {"status"} |-> "paused"],
     [x \in {"completed_tasks"} |-> <<>>],
     [x \in {"note"} |-> "n1"],
     [x \in {"note"} |-> "n2"]}

TaskCompleted(task) == [task |-> task, status |-> "completed"]
TaskFailed(task) == [task |-> task, status |-> "failed"]

\* the keys run has assigned so far
RunKeys(r) ==
    IF r.pc = "idle" THEN {}
    ELSE {"status", "input", "current_task"}
         \cup (IF r.idx > 1 THEN {"completed_tasks"} ELSE {})

\* run, up to its first execute_activity or, without tasks, to its return
TwRun(tasks) ==
    /\ tw.pc = "idle"
    /\ LET st0 == DictUpdate(TwInitialState, [k \in {"status", "input"} |->
                                IF k = "status" THEN "running" ELSE tasks])
       IN tw' = IF tasks = <<>>
                THEN [pc |-> "done", result |-> "completed", tasks |-> tasks, idx |-> 1,
                      attempt |-> 0, act |-> "none", results |-> <<>>,
                      state |-> DictUpdate(st0, [k \in {"status", "results"} |->
                                   IF k = "status" THEN "completed" ELSE <<>>]),
                      signals |-> <<>>, clobbered |-> FALSE, replied |-> {},
                      queries |-> 0]
                ELSE [pc |-> "task", result |-> "none", tasks |-> tasks, idx |-> 1,
                      attempt |-> 1, act |-> "inflight", results |-> <<>>,
                      state |-> DictSet(st0, "current_task", {tasks[1]}),
                      signals |-> <<>>, clobbered |-> FALSE, replied |-> {},
                      queries |-> 0]
    /\ UNCHANGED <<orch, pt>>

\* run, from the return of execute_activity (result or exception) to the next
\* execute_activity or to its return
TwAfterActivity(r, ok) ==
    LET task == r.tasks[r.idx]
        entry == IF ok THEN TaskCompleted(task) ELSE TaskFailed(task)
        st1 == DictSet(r.state, "completed_tasks", Append(r.state["completed_tasks"], entry))
        st2 == IF ok THEN st1 ELSE DictSet(st1, "errors", Append(st1["errors"], entry))
        results == IF ok THEN Append(r.results, task) ELSE r.results
    IN
    IF r.idx < Len(r.tasks)
    THEN [r EXCEPT !.idx = r.idx + 1, !.attempt = 1, !.act = "inflight",
                   !.results = results,
                   !.state = DictSet(st2, "current_task", {r.tasks[r.idx + 1]})]
    ELSE [r EXCEPT !.pc = "done", !.result = "completed", !.act = "none",
                   !.results = results,
                   !.state = DictUpdate(st2, [k \in {"status", "results"} |->
                                IF k = "status" THEN "completed" ELSE results])]

\* one attempt of process_agent_task
TwAttempt(ok) ==
    /\ tw.pc = "task" /\ tw.act = "inflight"
    /\ tw' = IF ok THEN TwAfterActivity(tw, TRUE)
             ELSE IF tw.attempt < TwMaximumAttempts THEN [tw EXCEPT !.act = "backoff"]
             ELSE TwAfterActivity(tw, FALSE)
    /\ UNCHANGED <<orch, pt>>

\* the wait before the next attempt is over
TwBackoffOver ==
    /\ tw.pc = "task" /\ tw.act = "backoff"
    /\ tw' = [tw EXCEPT !.act = "inflight", !.attempt = tw.attempt + 1]
    /\ UNCHANGED <<orch, pt>>

\* the update_state signal
UpdateStateSignal(state, update) == DictUpdate(state, update)

TwSignal(update) ==
    /\ tw.pc = "task"
    /\ Len(tw.signals) < MaxSignals
    /\ tw' = [tw EXCEPT !.state = UpdateStateSignal(tw.state, update),
                        !.signals = Append(tw.signals, update),
                        !.clobbered = tw.clobbered
                                      \/ \E k \in DOMAIN update \cap RunKeys(tw) :
                                            update[k] # tw.state[k]]
    /\ UNCHANGED <<orch, pt>>

\* the get_state query through TemporalService.get_workflow_state: the
\* handler returns self._state; a query that fails is answered with None
QueryReplyInitial(state, queryOk) == {[found |-> TRUE, state |-> TwInitialState]}
QueryReply(state, queryOk) ==
    IF queryOk THEN {[found |-> TRUE, state |-> state]} ELSE {[found |-> FALSE]}

TwQuery(queryOk) ==
    /\ tw.pc # "idle"
    /\ tw.queries < MaxQueries
    /\ tw' = [tw EXCEPT !.replied = QueryReply(tw.state, queryOk),
                        !.queries = tw.queries + 1]
    /\ UNCHANGED <<orch, pt>>

TwNext ==
    \/ \E tasks \in TaskLists : TwRun(tasks) /\ UNCHANGED <<imVars, smVars, wfVars, esVars>>
    \/ \E ok \in BOOLEAN : TwAttempt(ok) /\ UNCHANGED <<imVars, smVars, wfVars, esVars>>
    \/ TwBackoffOver /\ UNCHANGED <<imVars, smVars, wfVars, esVars>>
    \/ \E u \in Signals : TwSignal(u) /\ UNCHANGED <<imVars, smVars, wfVars, esVars>>
    \/ \E queryOk \in BOOLEAN : TwQuery(queryOk) /\ UNCHANGED <<imVars, smVars, wfVars, esVars>>
TwInit == ImIdle /\ SmInit /\ NoRuns /\ EsEmpty /\ TwIdle
SpecTw == TwInit /\ [][TwNext]_vars

\* the value the signals applied so far have left for a key
RECURSIVE LastSignalled(_, _)
LastSignalled(sigs, k) ==
    IF sigs = <<>> THEN {}
    ELSE IF k \in DOMAIN sigs[Len(sigs)] THEN {sigs[Len(sigs)][k]}
    ELSE LastSignalled(SubSeq(sigs, 1, Len(sigs) - 1), k)
SignalledKeys(sigs) == UNION {DOMAIN sigs[j] : j \in 1..Len(sigs)}

\* C21 (as stated): once run has finished, every field written by a signal
\* holds the value of the last signal that wrote it, and no signal has
\* overwritten a value run itself had written.
C21_AsStated ==
    /\ tw.pc = "done" =>
          \A k \in SignalledKeys(tw.signals) :
              k \in DOMAIN tw.state /\ {tw.state[k]} = LastSignalled(tw.signals, k)
    /\ tw.pc # "idle" => ~tw.clobbered

\* C28: the get_state query is answered wherever run is waiting, during an
\* attempt of the activity and between two attempts; a query that goes
\* through returns self._state as it is at that point, signals included; and
\* answering changes neither self._state nor the position of run, its task,
\* its attempt count or its results.
C28_QueryReadOnly ==
    /\ [](tw.pc = "task" /\ tw.queries < MaxQueries => ENABLED TwQuery(TRUE))
    /\ [][tw.pc # "idle" /\ tw'.queries # tw.queries =>
             /\ tw'.replied \in {{[found |-> TRUE, state |-> tw.state]}, {[found |-> FALSE]}}
             /\ tw'.state = tw.state
             /\ tw'.pc = tw.pc /\ tw'.act = tw.act /\ tw'.idx = tw.idx
             /\ tw'.attempt = tw.attempt /\ tw'.results = tw.results
             /\ tw'.signals = tw.signals /\ tw'.result = tw.result]_vars

C28_Witness ==
    /\ tw.pc = "task" /\ tw.act = "backoff"
    /\ tw.signals # <<>>
    /\ tw.replied = {[found |-> TRUE, state |-> tw.state]}
    /\ "note" \in DOMAIN tw.state

(***************************************************************************)
(* WorkflowService.cancel_workflow (workflows/workflow_service.py) next to *)
(* a run of AgentWorkflow (workflows/agent_workflow.py)                    *)
(***************************************************************************)
\* cancel_workflow of a running workflow: store_event, then return True
CancelWorkflow(i) ==
    /\ wf[i].pc \notin {"created", "done"}
    /\ StoreEvent(Uuid(i), "workflow_cancelled")

CnNext ==
    \/ \E i \in DOMAIN wf : WfBegin(i) /\ UNCHANGED <<imVars, esVars, twVars>>
    \/ \E i \in DOMAIN wf, dbOk, cacheOk, emitOk \in BOOLEAN :
          WfUpdateAttempt(i, dbOk, cacheOk, emitOk) /\ UNCHANGED <<imVars, esVars, twVars>>
    \/ \E i \in DOMAIN wf, ok \in BOOLEAN :
          WfActivityAttempt(i, ok) /\ UNCHANGED <<imVars, esVars, twVars>>
    \/ \E i \in DOMAIN wf :
          CancelWorkflow(i) /\ UNCHANGED <<imVars, smVars, wfVars, twVars>>
SpecCn == WfInit /\ [][CnNext]_vars

CancelRequested(i) ==
    [workflow_id |-> Str(Uuid(i)), type |-> "workflow_cancelled"] \in esSubmitted
CancelledEvents(i) ==
    {row \in workflow_events :
        row.workflow_id = Str(Uuid(i)) /\ row.type = "workflow_cancelled"}

\* C22 (as stated): a run for which a cancellation was requested while it
\* was running ends in a cancelled state, and exactly one workflow_cancelled
\* event is in the log for its workflow_id.
C22_AsStated ==
    \A i \in DOMAIN wf :
        (CancelRequested(i) /\ Done(i)) =>
            /\ wf[i].result = "cancelled"
            /\ Cardinality(CancelledEvents(i)) = 1

(***************************************************************************)
(* Orchestrator.process_step (agent_runtime/orchestrator.py).  A call      *)
(* that recovers calls itself again, one frame deeper; the interpreter     *)
(* raises RecursionError in the frame that would exceed RecursionLimit.    *)
(***************************************************************************)
MaxOrCalls == 2
MaxTools == 2
RecursionLimit == 3

ToolNames == {"search", "error_tool", "unknown"}
Registry == {"search", "error_tool"}
\* input_data: with or without "query", with or without "tools"
OrInputs ==
    {[query |-> q, tools |-> t] :
        q \in Opt({"q1"}), t \in Opt(SeqsUpTo(ToolNames, MaxTools))}
Malformed(input) == input.query = {} \/ input.tools = {}

\* recover_from_error
RecoverFromError(error) == error = "ValueError"

\* the except block of process_step in frame depth
OrExcept(o, error) ==
    IF RecoverFromError(error)
    THEN IF o.depth < RecursionLimit
         THEN [o EXCEPT !.pc = "attempt", !.depth = o.depth + 1, !.k = 1,
                        !.tool_results = <<>>]
         ELSE [o EXCEPT !.pc = "returned", !.outcome = "RecursionError"]
    ELSE [o EXCEPT !.pc = "returned", !.outcome = error]

\* process_step is called
OrCall(input) ==
    /\ orch.pc \in {"idle", "returned"}
    /\ (IF orch.pc = "idle" THEN 0 ELSE orch.calls) < MaxOrCalls
    /\ orch' = [pc |-> "attempt", input |-> input, depth |-> 1, k |-> 1,
                tool_results |-> <<>>, outcome |-> "none", attempts |-> 0,
                calls |-> (IF orch.pc = "idle" THEN 0 ELSE orch.calls) + 1]
    /\ UNCHANGED <<tw, pt>>

\* one attempt, up to the first tool.execute
OrAttempt ==
    /\ orch.pc = "attempt"
    /\ LET o == [orch EXCEPT !.attempts = orch.attempts + 1] IN
       orch' = IF Malformed(o.input) THEN OrExcept(o, "ValueError")
               ELSE IF Val(o.input.tools) = <<>>
               THEN [o EXCEPT !.pc = "returned", !.outcome = "success"]
               ELSE IF Val(o.input.tools)[1] \notin Registry
               THEN OrExcept(o, "ValueError")
               ELSE [o EXCEPT !.pc = "tool"]
    /\ UNCHANGED <<tw, pt>>

\* tool.execute returns a result or raises
OrTool(res) ==
    /\ orch.pc = "tool"
    /\ LET tools == Val(orch.input.tools)
           name == tools[orch.k]
           o == [orch EXCEPT !.tool_results = Append(orch.tool_results, res)]
       IN orch' =
            IF res = "raise" THEN OrExcept(orch, "ToolError")
            ELSE IF name = "error_tool" /\ res = "error"
            THEN [o EXCEPT !.pc = "returned", !.outcome = "error"]
            ELSE IF orch.k = Len(tools)
            THEN [o EXCEPT !.pc = "returned", !.outcome = "success"]
            ELSE IF tools[orch.k + 1] \notin Registry
            THEN OrExcept(o, "ValueError")
            ELSE [o EXCEPT !.k = orch.k + 1]
    /\ UNCHANGED <<tw, pt>>

OrNext ==
    \/ \E input \in OrInputs : OrCall(input) /\ UNCHANGED <<imVars, smVars, wfVars, esVars>>
    \/ OrAttempt /\ UNCHANGED <<imVars, smVars, wfVars, esVars>>
    \/ \E res \in {"success", "error", "raise"} :
          OrTool(res) /\ UNCHANGED <<imVars, smVars, wfVars, esVars>>
SpecOr == TwInit /\ [][OrNext]_vars

\* C26 (as stated): process_step makes one attempt on an input that lacks
\* query or tools, and the call ends with the validation error.
C26_AsStated ==
    (orch.pc # "idle" /\ Malformed(orch.input)) =>
        /\ orch.attempts <= 1
        /\ orch.pc = "returned" => orch.outcome = "ValueError"
\* C37 (as stated): when run returns, completed_tasks holds one entry per
\* input task, in input order, each marked completed or failed; results and
\* errors together have one element per task and the status is completed.
C37_AsStated ==
    tw.pc = "done" =>
        LET done == tw.state["completed_tasks"] IN
        /\ Len(done) = Len(tw.tasks)
        /\ \A j \in 1..Len(done) :
              done[j].task = tw.tasks[j] /\ done[j].status \in {"completed", "failed"}
        /\ Len(tw.results) + Len(tw.state["errors"]) = Len(tw.tasks)
        /\ tw.state["status"] = "completed" /\ tw.result = "completed"

(***************************************************************************)
(* The manager over DatabaseConnection, the type of its `cassandra`: a     *)
(* statement that fails is logged by execute, which returns [] and raises  *)
(* nothing                                                                 *)
(***************************************************************************)
IxConfigs == {"c1", "c2"}
IxSnapshot(index, cache) == [index |-> index, cache |-> cache]

DbRegisterIntegration(t, c, offline_mode, sessionOk) ==
    LET new == IntegrationConfig(t, c, TRUE, {}, DefaultTimeout, DefaultCacheTtl) IN
    /\ integrations_db' = IF Executed(offline_mode, sessionOk)
                          THEN Put(integrations_db, t, new) ELSE integrations_db
    /\ integrations' = Put(integrations, t, new)
    /\ UNCHANGED <<icache, ex, preCall, preUpd>>
    /\ imRet' = [call |-> "register", result |-> "ok", type |-> t, written |-> {new},
                 failure |-> SessionFailed(offline_mode, sessionOk),
                 before |-> IxSnapshot(integrations, icache),
                 after |-> IxSnapshot(integrations', icache')]

DbUpdateIntegration(t, c, offline_mode, sessionOk) ==
    IF t \notin DOMAIN integrations
    THEN /\ imRet' = [call |-> "update", result |-> "ValueError"]
         /\ UNCHANGED <<integrations, integrations_db, icache, ex, preCall, preUpd>>
    ELSE LET new == [integrations[t] EXCEPT !.config = c] IN
         /\ integrations_db' = IF Executed(offline_mode, sessionOk)
                               THEN Put(integrations_db, t, new) ELSE integrations_db
         /\ icache' = ClearIntegrationCache(icache, t)
         /\ integrations' = Put(integrations, t, new)
         /\ UNCHANGED <<ex, preCall, preUpd>>
         /\ imRet' = [call |-> "update", result |-> "ok", type |-> t, written |-> {new},
                      failure |-> SessionFailed(offline_mode, sessionOk),
                      before |-> IxSnapshot(integrations, icache),
                      after |-> IxSnapshot(integrations', icache')]

DbDeleteIntegration(t, offline_mode, sessionOk) ==
    IF t \notin DOMAIN integrations
    THEN /\ imRet' = [call |-> "delete", result |-> "ValueError"]
         /\ UNCHANGED <<integrations, integrations_db, icache, ex, preCall, preUpd>>
    ELSE /\ integrations_db' = IF Executed(offline_mode, sessionOk)
                               THEN Drop(integrations_db, t) ELSE integrations_db
         /\ integrations' = Drop(integrations, t)
         /\ icache' = ClearIntegrationCache(icache, t)
         /\ UNCHANGED <<ex, preCall, preUpd>>
         /\ imRet' = [call |-> "delete", result |-> "ok", type |-> t, written |-> {},
                      failure |-> SessionFailed(offline_mode, sessionOk),
                      before |-> IxSnapshot(integrations, icache),
                      after |-> IxSnapshot(integrations', icache')]

IxNext ==
    \/ \E t \in {TypeA}, c \in IxConfigs, offline_mode, sessionOk \in BOOLEAN :
          /\ DbRegisterIntegration(t, c, offline_mode, sessionOk)
          /\ UNCHANGED <<smVars, wfVars, esVars, twVars>>
    \/ \E t \in {TypeA}, c \in IxConfigs, offline_mode, sessionOk \in BOOLEAN :
          /\ DbUpdateIntegration(t, c, offline_mode, sessionOk)
          /\ UNCHANGED <<smVars, wfVars, esVars, twVars>>
    \/ \E t \in {TypeA}, offline_mode, sessionOk \in BOOLEAN :
          /\ DbDeleteIntegration(t, offline_mode, sessionOk)
          /\ UNCHANGED <<smVars, wfVars, esVars, twVars>>
    \/ \E p \in Params :
          ExecStart(TypeA, "op", p) /\ UNCHANGED <<smVars, wfVars, esVars, twVars>>
    \/ \E opOk \in BOOLEAN :
          ExecAttempt(opOk, 0) /\ UNCHANGED <<smVars, wfVars, esVars, twVars>>
    \/ ExecReturn /\ UNCHANGED <<smVars, wfVars, esVars, twVars>>
SpecIx == ImInit /\ [][IxNext]_vars

MaxCbCalls == 4
MaxCbClock == 4
CbResetTimeout == 2
CbMaxFailures == {1, 2}

\* circuit_state = {"failures": 0, "last_failure": 0, "state": "CLOSED"},
\* a local of the call
CircuitState == [failures |-> 0, last_failure |-> 0, state |-> "CLOSED"]

\* check_circuit(): the state it leaves and whether the call may go on
CheckCircuit(cs, now, reset_timeout) ==
    IF cs.state = "OPEN"
    THEN IF now - cs.last_failure > reset_timeout
         THEN [cs |-> [cs EXCEPT !.state = "HALF_OPEN"], go |-> TRUE]
         ELSE [cs |-> cs, go |-> FALSE]
    ELSE [cs |-> cs, go |-> TRUE]

\* except Exception: count the failure, open the circuit at max_failures
CbExcept(cs, now, max_failures) ==
    LET counted == [cs EXCEPT !.failures = @ + 1, !.last_failure = now]
    IN IF counted.failures >= max_failures
       THEN [counted EXCEPT !.state = "OPEN"] ELSE counted

\* the body of one call over the circuit state it starts with
CbBody(cs, funcOk, now, max_failures, reset_timeout) ==
    LET chk == CheckCircuit(cs, now, reset_timeout)
    IN IF ~chk.go
       THEN [invoked |-> FALSE, outcome |-> "CircuitOpen",
             cs |-> CbExcept(chk.cs, now, max_failures)]
       ELSE IF funcOk
       THEN [invoked |-> TRUE, outcome |-> "ok",
             cs |-> IF chk.cs.state = "HALF_OPEN"
                    THEN [chk.cs EXCEPT !.state = "CLOSED", !.failures = 0]
                    ELSE chk.cs]
       ELSE [invoked |-> TRUE, outcome |-> "raised",
             cs |-> CbExcept(chk.cs, now, max_failures)]

\* one circuit_breaker(func, max_failures, reset_timeout) call
CircuitBreaker(funcOk) ==
    /\ pt.pc = "cb"
    /\ pt.calls < MaxCbCalls
    /\ LET r == CbBody(CircuitState, funcOk, pt.now, pt.max_failures, CbResetTimeout)
       IN pt' = [pt EXCEPT
                   !.calls = @ + 1,
                   !.last = [invoked |-> r.invoked, outcome |-> r.outcome,
                             failedBefore |-> pt.failed,
                             sinceFailure |-> pt.now - pt.lastFailure],
                   !.failed = IF r.outcome = "ok" THEN 0
                              ELSE IF r.invoked THEN @ + 1 ELSE @,
                   !.lastFailure = IF r.outcome = "raised" THEN pt.now ELSE @]
    /\ UNCHANGED <<tw, orch>>

\* time.time() moves on
CbTick ==
    /\ pt.pc = "cb"
    /\ pt.now < MaxCbClock
    /\ pt' = [pt EXCEPT !.now = @ + 1]
    /\ UNCHANGED <<tw, orch>>

CbInit ==
    /\ ImIdle /\ SmInit /\ NoRuns /\ EsEmpty
    /\ tw = [pc |-> "idle"]
    /\ orch = [pc |-> "idle"]
    /\ \E mf \in CbMaxFailures :
          pt = [pc |-> "cb", max_failures |-> mf, now |-> 1, calls |-> 0,
                failed |-> 0, lastFailure |-> 0, last |-> [outcome |-> "none"]]
CbNext ==
    \/ \E funcOk \in BOOLEAN :
          CircuitBreaker(funcOk) /\ UNCHANGED <<imVars, smVars, wfVars, esVars>>
    \/ CbTick /\ UNCHANGED <<imVars, smVars, wfVars, esVars>>
SpecCb == CbInit /\ [][CbNext]_vars

\* C32 (as stated): once max_failures calls for the function have failed, a
\* further call made before reset_timeout has elapsed since the last failure
\* is rejected with the circuit-open error and does not invoke the function.
C32_AsStated ==
    (/\ pt.pc = "cb" /\ pt.last.outcome # "none"
     /\ pt.last.failedBefore >= pt.max_failures
     /\ pt.last.sinceFailure <= CbResetTimeout) =>
        ~pt.last.invoked /\ pt.last.outcome = "CircuitOpen"

(***************************************************************************)
(* WorkflowPatterns.saga_pattern                                           *)
(***************************************************************************)
MaxSagaSteps == 4
\* the lists given: n steps and the compensations of the first m of them
SagaInputs == {<<n, m>> \in (0..MaxSagaSteps) \X (0..MaxSagaSteps) : m <= n}

\* range(len(executed_steps) - 1, -1, -1): where the compensations start
FirstCompensationOfFailed(executed_steps) == Len(executed_steps)
FirstCompensation(executed_steps) == Len(executed_steps) - 1

\* saga_pattern(steps, compensations) called; indices are the lists' (from 0)
SagaCall(n, m) ==
    /\ pt.pc = "saga"
    /\ pt' = [pc |-> IF n = 0 THEN "returned" ELSE "steps", n |-> n, m |-> m,
              executed_steps |-> <<>>, ran |-> <<>>, comps |-> <<>>,
              compRaised |-> {}, exc |-> {}, i |-> 0]
    /\ UNCHANGED <<tw, orch>>

\* `await step()` for the next step, and the except branch up to the loop
SagaStep(ok) ==
    /\ pt.pc = "steps"
    /\ LET k == Len(pt.executed_steps)
           ran == Append(pt.ran, k)
       IN pt' = IF ok
                THEN [pt EXCEPT !.ran = ran,
                                !.executed_steps = Append(@, k),
                                !.pc = IF k + 1 = pt.n THEN "returned" ELSE "steps"]
                ELSE [pt EXCEPT !.ran = ran,
                                !.exc = {<<"step", k>>},
                                !.i = FirstCompensation(pt.executed_steps),
                                !.pc = IF FirstCompensation(pt.executed_steps) < 0
                                       THEN "raised" ELSE "compensating"]
    /\ UNCHANGED <<tw, orch>>

\* one pass of the compensation loop: compensations[i]() under its own try
SagaCompensate(ok) ==
    /\ pt.pc = "compensating"
    /\ LET i == pt.i
           exists == i < pt.m
       IN pt' = [pt EXCEPT
                   !.comps = IF exists THEN Append(@, i) ELSE @,
                   !.compRaised = IF ~exists \/ ~ok THEN @ \cup {i} ELSE @,
                   !.i = i - 1,
                   !.pc = IF i - 1 < 0 THEN "raised" ELSE "compensating"]
    /\ UNCHANGED <<tw, orch>>

SagaInit ==
    /\ ImIdle /\ SmInit /\ NoRuns /\ EsEmpty
    /\ tw = [pc |-> "idle"]
    /\ orch = [pc |-> "idle"]
    /\ pt = [pc |-> "saga"]
SagaNext ==
    \/ \E in \in SagaInputs :
          SagaCall(in[1], in[2]) /\ UNCHANGED <<imVars, smVars, wfVars, esVars>>
    \/ \E ok \in BOOLEAN : SagaStep(ok) /\ UNCHANGED <<imVars, smVars, wfVars, esVars>>
    \/ \E ok \in BOOLEAN :
          SagaCompensate(ok) /\ UNCHANGED <<imVars, smVars, wfVars, esVars>>
SpecSaga == SagaInit /\ [][SagaNext]_vars

\* the indices hi, hi - 1, ..., 0 that are below m, in that order
RECURSIVE DownFrom(_, _)
DownFrom(hi, m) ==
    IF hi < 0 THEN <<>>
    ELSE IF hi < m THEN <<hi>> \o DownFrom(hi - 1, m) ELSE DownFrom(hi - 1, m)
UpTo(n) == [j \in 1..n |-> j - 1]

\* C33: the steps run in list order; when step k raises, the compensations
\* given for the steps 0..k-1 are each run once, from k-1 down to 0, whether
\* or not one of them raises, no compensation of step k or of a later step
\* runs, and the call raises the exception of step k; when no step raises,
\* every step has run and no compensation has.
C33_Saga ==
    /\ pt.pc = "returned" =>
          pt.ran = UpTo(pt.n) /\ pt.comps = <<>> /\ pt.exc = {}
    /\ pt.pc = "raised" =>
          \E k \in 0..(pt.n - 1) :
              /\ pt.ran = UpTo(k + 1)
              /\ pt.exc = {<<"step", k>>}
              /\ pt.comps = DownFrom(k - 1, pt.m)

C33_Witness ==
    /\ pt.pc = "raised" /\ pt.exc = {<<"step", 2>>}
    /\ pt.comps = <<1, 0>> /\ 1 \in pt.compRaised /\ pt.m = pt.n

(***************************************************************************)
(* WorkflowPatterns.retry_with_backoff; times in tenths of a second        *)
(***************************************************************************)
MaxRbRetries == 3
RbInputs ==
    [max_retries : 0..MaxRbRetries, base_delay : {10, 20},
     max_delay : {30, 100}, exponential_base : {2, 3}]

\* delay = min(base_delay * (exponential_base ** retries), max_delay)
RbDelay(in, retries) ==
    Min2(in.base_delay * Pow(in.exponential_base, retries), in.max_delay)
\* jitter = random.uniform(0, 0.1 * delay)
RbJitters(delay) == 0..(delay \div 10)

\* one pass of the `while True` loop: func(), and the except branch
RbAttempt(ok) ==
    /\ pt.pc = "rb"
    /\ LET calls == pt.calls + 1
           retries == pt.retries + 1
           delay == RbDelay(pt.in, retries)
       IN IF ok
          THEN pt' = [pt EXCEPT !.pc = "returned", !.calls = calls, !.result = {calls}]
          ELSE IF pt.retries >= pt.in.max_retries
          THEN pt' = [pt EXCEPT !.pc = "raised", !.calls = calls, !.exc = {calls}]
          ELSE \E jitter \in RbJitters(delay) :
                  pt' = [pt EXCEPT !.calls = calls, !.retries = retries,
                                   !.delays = Append(@, delay),
                                   !.sleeps = Append(@, delay + jitter)]
    /\ UNCHANGED <<tw, orch>>

RbInit ==
    /\ ImIdle /\ SmInit /\ NoRuns /\ EsEmpty
    /\ tw = [pc |-> "idle"]
    /\ orch = [pc |-> "idle"]
    /\ \E in \in RbInputs :
          pt = [pc |-> "rb", in |-> in, calls |-> 0, retries |-> 0,
                delays |-> <<>>, sleeps |-> <<>>, result |-> {}, exc |-> {}]
RbNext ==
    \/ \E ok \in BOOLEAN : RbAttempt(ok) /\ UNCHANGED <<imVars, smVars, wfVars, esVars>>
SpecRb == RbInit /\ [][RbNext]_vars

\* C34 (as stated): the function is invoked at most 1 + max_retries times, the
\* call returns the result of the first invocation that succeeds and raises
\* the last exception when all fail; the delay before retry n is
\* min(base_delay * exponential_base^(n-1), max_delay), base_delay before the
\* first retry, and the sleep adds a jitter of at most a tenth of it.
C34_AsStated ==
    pt.pc \in {"rb", "returned", "raised"} =>
        /\ pt.calls <= 1 + pt.in.max_retries
        /\ pt.pc = "returned" => pt.result = {pt.calls}
        /\ pt.pc = "raised" => pt.calls = 1 + pt.in.max_retries /\ pt.exc = {pt.calls}
        /\ \A n \in 1..Len(pt.delays) :
              /\ pt.delays[n] =
                    Min2(pt.in.base_delay * Pow(pt.in.exponential_base, n - 1),
                         pt.in.max_delay)
              /\ pt.sleeps[n] >= pt.delays[n]
              /\ 10 * (pt.sleeps[n] - pt.delays[n]) <= pt.delays[n]

(***************************************************************************)
(* WorkflowPatterns.bulkhead_pattern under concurrent calls                *)
(***************************************************************************)
MaxBhCalls == 3
MaxConcurrent == 2
BhCalls == 1..MaxBhCalls

\* semaphore = asyncio.Semaphore(max_concurrent), a local of the call
BhCall(c) ==
    /\ pt.pc = "bh"
    /\ pt.call[c].pc = "idle"
    /\ pt' = [pt EXCEPT !.call[c] = [pc |-> "entered", semaphore |-> pt.max_concurrent]]
    /\ UNCHANGED <<tw, orch>>

\* `async with semaphore`: acquire, then func() starts under wait_for
BhAcquire(c) ==
    /\ pt.pc = "bh"
    /\ pt.call[c].pc = "entered"
    /\ pt.call[c].semaphore > 0
    /\ pt' = [pt EXCEPT !.call[c].pc = "running", !.call[c].semaphore = @ - 1]
    /\ UNCHANGED <<tw, orch>>

\* func() returns or raises, or wait_for times out; the semaphore is released
BhFinish(c, how) ==
    /\ pt.pc = "bh"
    /\ pt.call[c].pc = "running"
    /\ pt' = [pt EXCEPT !.call[c].pc = how, !.call[c].semaphore = @ + 1]
    /\ UNCHANGED <<tw, orch>>

BhInit ==
    /\ ImIdle /\ SmInit /\ NoRuns /\ EsEmpty
    /\ tw = [pc |-> "idle"]
    /\ orch = [pc |-> "idle"]
    /\ \E mc \in 1..MaxConcurrent :
          pt = [pc |-> "bh", max_concurrent |-> mc,
                call |-> [c \in BhCalls |-> [pc |-> "idle"]]]
BhNext ==
    \/ \E c \in BhCalls : BhCall(c) /\ UNCHANGED <<imVars, smVars, wfVars, esVars>>
    \/ \E c \in BhCalls : BhAcquire(c) /\ UNCHANGED <<imVars, smVars, wfVars, esVars>>
    \/ \E c \in BhCalls, how \in {"returned", "raised", "timeout"} :
          BhFinish(c, how) /\ UNCHANGED <<imVars, smVars, wfVars, esVars>>
SpecBh == BhInit /\ [][BhNext]_vars

\* C35 (as stated): among concurrent bulkhead_pattern calls with the same
\* max_concurrent, at most max_concurrent protected functions are in flight
\* at the same time.
C35_AsStated ==
    pt.pc = "bh" =>
        Cardinality({c \in BhCalls : pt.call[c].pc = "running"}) <= pt.max_concurrent

(***************************************************************************)
(* WorkflowPatterns.workflow_orchestration                                 *)
(***************************************************************************)
MaxWoSteps == 2
\* a step id that depends_on may name without any step having it
NoStep == 0
\* workflow_def["steps"]: steps 1..n, each with its depends_on
WorkflowDefs ==
    UNION {[1..n -> SUBSET ({NoStep} \cup (1..n))] : n \in 0..MaxWoSteps}

\* _build_execution_graph: add_node for each step, add_edge(dep, id) for each
\* dependency (which adds dep as a node when no step has that id)
GraphNodes(deps) == (DOMAIN deps) \cup UNION {deps[x] : x \in DOMAIN deps}
Predecessors(deps, x) == IF x \in DOMAIN deps THEN deps[x] ELSE {}

\* ready_nodes of one pass of the loop
ReadyNodes(deps, executed) ==
    {x \in GraphNodes(deps) : Predecessors(deps, x) \subseteq executed /\ x \notin executed}

\* `while len(executed) < len(graph.nodes)`
LoopOrReturn(deps, executed) ==
    IF Cardinality(executed) < Cardinality(GraphNodes(deps)) THEN "loop" ELSE "returned"

\* workflow_orchestration(workflow_def) called: the graph is built
WoCall(deps) ==
    /\ pt.pc = "wo"
    /\ pt' = [pc |-> LoopOrReturn(deps, {}), deps |-> deps, executed |-> {},
              invoked |-> [x \in DOMAIN deps |-> 0], batches |-> <<>>,
              idlePass |-> FALSE]
    /\ UNCHANGED <<tw, orch>>

\* one pass of the loop of _execute_workflow: the ready handlers are called
\* and gathered; handlersOk: none of them raises
WoPass(handlersOk) ==
    /\ pt.pc = "loop"
    /\ LET ready_nodes == ReadyNodes(pt.deps, pt.executed)
           executed == pt.executed \cup ready_nodes
       IN IF NoStep \in ready_nodes
          THEN \* graph.nodes[node]["handler"]: KeyError
               pt' = [pt EXCEPT !.pc = "raised"]
          ELSE IF ready_nodes # {} /\ ~handlersOk
          THEN pt' = [pt EXCEPT
                        !.pc = "raised",
                        !.invoked = [x \in DOMAIN @ |->
                                        IF x \in ready_nodes THEN @[x] + 1 ELSE @[x]],
                        !.batches = Append(@, ready_nodes)]
          ELSE pt' = [pt EXCEPT
                        !.pc = LoopOrReturn(pt.deps, executed),
                        !.executed = executed,
                        !.invoked = [x \in DOMAIN @ |->
                                        IF x \in ready_nodes THEN @[x] + 1 ELSE @[x]],
                        !.batches = IF ready_nodes = {} THEN @ ELSE Append(@, ready_nodes),
                        \* history: flips on each pass that found nothing to run
                        !.idlePass = IF ready_nodes = {} THEN ~@ ELSE @]
    /\ UNCHANGED <<tw, orch>>

WoInit ==
    /\ ImIdle /\ SmInit /\ NoRuns /\ EsEmpty
    /\ tw = [pc |-> "idle"]
    /\ orch = [pc |-> "idle"]
    /\ pt = [pc |-> "wo"]
WoNext ==
    \/ \E deps \in WorkflowDefs : WoCall(deps) /\ UNCHANGED <<imVars, smVars, wfVars, esVars>>
    \/ \E handlersOk \in BOOLEAN :
          WoPass(handlersOk) /\ UNCHANGED <<imVars, smVars, wfVars, esVars>>
\* the event loop keeps running the call
SpecWo == WoInit /\ [][WoNext]_vars /\ WF_vars(WoNext)

\* C36 (as stated): the call terminates for every workflow definition; when
\* it returns every step's handler has been invoked exactly once, and a
\* handler was started only in a batch that follows the batches of all the
\* steps it depends on.
C36_AsStated ==
    /\ (pt.pc = "loop") ~> (pt.pc \in {"returned", "raised"})
    /\ [](pt.pc = "returned" =>
            /\ \A x \in DOMAIN pt.deps : pt.invoked[x] = 1
            /\ \A j \in 1..Len(pt.batches) : \A x \in pt.batches[j] :
                  \A d \in pt.deps[x] : \E h \in 1..(j - 1) : d \in pt.batches[h])

====
